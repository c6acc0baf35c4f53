---------------------------- MODULE UbifsLayout ----------------------------
(***************************************************************************)
(* mkfs.ubifs: nodes put into logical eraseblocks (LEBs), their            *)
(* properties, the index over them, and the areas of the image in the      *)
(* order mkfs() writes them.                                               *)
(*                                                                         *)
(* A node is [key, name, len].  The LEBs of the target hold what was there *)
(* before ("old"), nothing, or nodes with their offsets and the padding.   *)
(* The tree of LEB properties (create_lpt) is UbifsLpt's.                  *)
(***************************************************************************)
EXTENDS Integers, Sequences, FiniteSets, FiniteSetsExt, SequencesExt

CONSTANTS UlInputs,         \* sequences of nodes
          UlLeb, UlMinIo,   \* c->leb_size, c->min_io_size
          UlFanouts,
          UlIdx, UlBranch,  \* an index node of n children is UlIdx + n * UlBranch long
          UlPad,            \* UBIFS_PAD_NODE_SZ
          UlMinWrite, UlMaxNode,        \* MIN_WRITE_SZ, UBIFS_MAX_NODE_SZ
          UlLog, UlLptFirst, UlLptUsed, UlLptLast, UlMainFirst,     \* the areas
          UlMaxLebs

VARIABLES ul_pc, ul_in, ul_fanout,
          ul_flash,         \* LEB number -> [nodes, pad, end], Old or Blank
          ul_lnum, ul_offs, ul_buf, ul_flags,           \* the head
          ul_index,         \* idx_list: [key, name, lnum, offs, len]
          ul_lpt,           \* c->lpt: LEB number -> [free, dirty, index]
          ul_lst,           \* c->lst
          ul_level,         \* the level of the index: [no, i, cnt, bcnt, last, step, blnum, boffs]
          ul_root, ul_idxsz, ul_gc, ul_ihead,
          ul_mst,           \* the master node
          ul_lost           \* an index node was not written and nobody noticed

ulVars == <<ul_pc, ul_in, ul_fanout, ul_flash, ul_lnum, ul_offs, ul_buf, ul_flags, ul_index, ul_lpt, ul_lst,
            ul_level, ul_root, ul_idxsz, ul_gc, ul_ihead, ul_mst, ul_lost>>
ulHead == <<ul_lnum, ul_offs, ul_buf>>
ulDone == <<ul_root, ul_idxsz, ul_gc, ul_ihead, ul_lost>>

Old == [nodes |-> <<>>, pad |-> <<"old", 0, 0>>, end |-> 0]
Blank == [nodes |-> <<>>, pad |-> <<"none", 0, 0>>, end |-> 0]
NoLst == [free |-> 0, dirty |-> 0, used |-> 0, dead |-> 0, dark |-> 0, idx |-> 0, empty |-> 0]
Nothing == <<>>

UlOff ==
    /\ ul_pc = "off" /\ ul_in = <<>> /\ ul_fanout = 0 /\ ul_flash = <<>> /\ ul_lnum = 0 /\ ul_offs = 0 /\ ul_buf = <<>>
    /\ ul_flags = "data" /\ ul_index = <<>> /\ ul_lpt = <<>> /\ ul_lst = NoLst /\ ul_level = Nothing
    /\ ul_root = Nothing /\ ul_idxsz = 0 /\ ul_gc = 0 /\ ul_ihead = Nothing /\ ul_mst = Nothing /\ ul_lost = FALSE

UlInit ==
    /\ ul_in \in UlInputs /\ ul_fanout \in UlFanouts
    /\ ul_pc = "data" /\ ul_flash = [l \in 0 .. 2 * UlMaxLebs |-> Old]
    /\ ul_lnum = UlMainFirst /\ ul_offs = 0 /\ ul_buf = <<>> /\ ul_flags = "data" /\ ul_index = <<>>
    /\ ul_lpt = <<>> /\ ul_lst = NoLst /\ ul_level = Nothing
    /\ ul_root = Nothing /\ ul_idxsz = 0 /\ ul_gc = 0 /\ ul_ihead = Nothing /\ ul_mst = Nothing /\ ul_lost = FALSE

Align(n, a) == ((n + a - 1) \div a) * a
DeadWm == Align(UlMinWrite, UlMinIo)
DarkWm == Align(UlMaxNode, UlMinIo)

(* do_pad: filled up to whole I/O units, by a padding node where there is  *)
(* room for one and by padding bytes where not.                            *)
DoPad(nodes, len) ==
    LET alen == Align(len, 8)
        wlen == Align(alen, UlMinIo)
        pad == wlen - alen
    IN  [nodes |-> nodes, end |-> wlen,
         pad |-> IF pad >= UlPad THEN <<"node", UlPad, pad - UlPad>> ELSE <<"bytes", 0, pad>>]

(* calc_dark, set_lprops.  The table has room for the LEBs of the largest  *)
(* file system; the totals count every LEB.                                *)
CalcDark(spc) == IF spc < DarkWm THEN spc ELSE IF spc - DarkWm < UlMinWrite THEN spc - UlMinWrite ELSE DarkWm
FreeOf(offs) == UlLeb - Align(offs, Max({UlMinIo, 8}))
SetLprops(b, lnum, offs, flags) ==
    LET free == FreeOf(offs)
        dirty == UlLeb - free - Align(offs, 8)
        spc == free + dirty
        p == [free |-> free, dirty |-> dirty, index |-> flags = "index"]
        t == [b.lst EXCEPT !.free = @ + free, !.dirty = @ + dirty]
    IN  [b EXCEPT !.lpt = IF lnum < UlMaxLebs THEN [l \in DOMAIN @ \cup {lnum} |-> IF l = lnum THEN p ELSE @[l]] ELSE @,
                  !.lst = IF flags = "index" THEN [t EXCEPT !.idx = @ + 1]
                          ELSE IF spc < DeadWm THEN [t EXCEPT !.dead = @ + spc, !.used = @ + UlLeb - spc]
                          ELSE [t EXCEPT !.dark = @ + CalcDark(spc), !.used = @ + UlLeb - spc]]

(* flush_nodes, reserve_space and what add_node and add_idx_node share:    *)
(* the state of the head is passed from one to the next.                   *)
Head0 == [lnum |-> ul_lnum, offs |-> ul_offs, buf |-> ul_buf, flash |-> ul_flash, lpt |-> ul_lpt, lst |-> ul_lst]
Becomes(b) ==
    /\ ul_lnum' = b.lnum /\ ul_offs' = b.offs /\ ul_buf' = b.buf
    /\ ul_flash' = b.flash /\ ul_lpt' = b.lpt /\ ul_lst' = b.lst
FlushNodes(b, flags) ==
    IF b.offs = 0 THEN b
    ELSE [SetLprops(b, b.lnum, b.offs, flags) EXCEPT
             !.flash = [@ EXCEPT ![b.lnum] = DoPad(b.buf, b.offs)], !.lnum = @ + 1, !.offs = 0, !.buf = <<>>]
FullAtEnd(b, len) == b.offs >= UlLeb        \* mutant: a node may run over the end
NoRoom(b, len) == len > UlLeb - b.offs
ReserveSpace(b, len, flags) == IF NoRoom(b, len) THEN FlushNodes(b, flags) ELSE b
Put(b, node, len) == [b EXCEPT !.offs = @ + Align(len, 8), !.buf = Append(@, [offs |-> b.offs, len |-> len, node |-> node])]

(* add_node, for each node of the tree. *)
AddNode ==
    /\ ul_pc = "data" /\ Len(ul_index) < Len(ul_in)
    /\ LET n == ul_in[Len(ul_index) + 1]
           b == ReserveSpace(Head0, n.len, "data")
       IN  /\ Becomes(Put(b, n, n.len))
           /\ ul_index' = Append(ul_index, [key |-> n.key, name |-> n.name, lnum |-> b.lnum, offs |-> b.offs,
                                            len |-> n.len])
    /\ UNCHANGED <<ul_pc, ul_in, ul_fanout, ul_flags, ul_level, ulDone, ul_mst>>
WriteDataEnd ==
    /\ ul_pc = "data" /\ Len(ul_index) = Len(ul_in)
    /\ Becomes(FlushNodes(Head0, "data")) /\ ul_pc' = "gc"
    /\ UNCHANGED <<ul_in, ul_fanout, ul_flags, ul_index, ul_level, ulDone, ul_mst>>

(* set_gc_lnum: a LEB for the garbage collector, before the index. *)
SetGcLnum ==
    /\ ul_pc = "gc"
    /\ ul_gc' = ul_lnum
    /\ LET b == SetLprops([Head0 EXCEPT !.lnum = @ + 1, !.flash = [@ EXCEPT ![ul_lnum] = Blank]], ul_lnum, 0, "data")
       IN  Becomes([b EXCEPT !.lst = [@ EXCEPT !.empty = @ + 1]])
    /\ ul_pc' = "sort"
    /\ UNCHANGED <<ul_in, ul_fanout, ul_flags, ul_index, ul_level, ul_root, ul_idxsz, ul_ihead, ul_mst, ul_lost>>

(* write_index.  keys_cmp, then the names of a hash collision. *)
CmpIdx(a, b) == a.key < b.key \/ (a.key = b.key /\ a.name <= b.name)
SortIndex ==
    /\ ul_pc = "sort"
    /\ ul_index' = SortSeq(ul_index, LAMBDA a, b : CmpIdx(a, b) /\ ~CmpIdx(b, a))
    /\ ul_flags' = "index"
    /\ ul_level' = [no |-> 0, i |-> 0, cnt |-> (Len(ul_index) + ul_fanout - 1) \div ul_fanout, bcnt |-> Len(ul_index),
                    last |-> 0, step |-> 1, blnum |-> ul_lnum, boffs |-> ul_offs]
    /\ ul_pc' = "index"
    /\ UNCHANGED <<ul_in, ul_fanout, ulHead, ul_flash, ul_lpt, ul_lst, ulDone, ul_mst>>

IdxNodeSz(n) == UlIdx + n * UlBranch
ChildCnt(l) == IF l.i # l.cnt - 1 \/ l.bcnt % ul_fanout = 0 THEN ul_fanout ELSE l.bcnt % ul_fanout

(* The branches of an index node.  Above level 0 the code does not know    *)
(* where it put the nodes of the level below; it works it out again, as    *)
(* all but the last are full.                                              *)
Leaf(l, j) == LET e == ul_index[l.i * ul_fanout + j]
              IN  [key |-> e.key, lnum |-> e.lnum, offs |-> e.offs, len |-> e.len]
Blen(l, j) == IF l.i * ul_fanout + j = l.bcnt THEN l.last ELSE IdxNodeSz(ul_fanout)
InNextLeb(at, len) == IF at.boffs + len > UlLeb THEN [blnum |-> at.blnum + 1, boffs |-> 0] ELSE at
Below(l) ==
    LET f[j \in 0 .. ChildCnt(l)] ==
            IF j = 0 THEN [at |-> [blnum |-> l.blnum, boffs |-> l.boffs], br |-> <<>>]
            ELSE LET at == InNextLeb(f[j - 1].at, Blen(l, j))
                 IN  [at |-> [at EXCEPT !.boffs = @ + Align(Blen(l, j), 8)],
                      br |-> Append(f[j - 1].br,
                                    [key |-> ul_index[(l.i * ul_fanout + j - 1) * l.step + 1].key,
                                     lnum |-> at.blnum, offs |-> at.boffs, len |-> Blen(l, j)])]
    IN  f[ChildCnt(l)]
IndexNode ==
    /\ ul_pc = "index" /\ ul_level.i < ul_level.cnt
    /\ LET l == ul_level
           n == ChildCnt(l)
           brs == IF l.no = 0 THEN [j \in 1 .. n |-> Leaf(l, j)] ELSE Below(l).br
           at == IF l.no = 0 THEN [blnum |-> l.blnum, boffs |-> l.boffs] ELSE Below(l).at
           b == ReserveSpace(Head0, IdxNodeSz(n), "index")
       IN  /\ Becomes(Put(b, [level |-> l.no, br |-> brs], IdxNodeSz(n)))
           /\ ul_root' = [lnum |-> b.lnum, offs |-> b.offs]
           /\ ul_idxsz' = ul_idxsz + Align(IdxNodeSz(n), 8)
           /\ ul_level' = [l EXCEPT !.i = @ + 1, !.blnum = at.blnum, !.boffs = at.boffs]
    /\ UNCHANGED <<ul_pc, ul_in, ul_fanout, ul_flags, ul_index, ul_gc, ul_ihead, ul_mst, ul_lost>>
(* write_index does not look at what add_idx_node returns: where the LEB   *)
(* could not be written the node is left out and the next one tries again. *)
IndexNodeLost ==
    /\ ul_pc = "index" /\ ul_level.i < ul_level.cnt
    /\ LET l == ul_level
           at == IF l.no = 0 THEN [blnum |-> l.blnum, boffs |-> l.boffs] ELSE Below(l).at
       IN  /\ NoRoom(Head0, IdxNodeSz(ChildCnt(l)))
           /\ ul_level' = [l EXCEPT !.i = @ + 1, !.blnum = at.blnum, !.boffs = at.boffs]
    /\ ul_lost' = TRUE
    /\ UNCHANGED <<ul_pc, ul_in, ul_fanout, ulHead, ul_flash, ul_flags, ul_index, ul_lpt, ul_lst, ul_root, ul_idxsz,
                   ul_gc, ul_ihead, ul_mst>>
NextLevel ==
    /\ ul_pc = "index" /\ ul_level.i = ul_level.cnt /\ ul_level.cnt > 1
    /\ LET l == ul_level
       IN  ul_level' = [l EXCEPT !.no = @ + 1, !.i = 0, !.bcnt = l.cnt, !.cnt = (l.cnt + ul_fanout - 1) \div ul_fanout,
                                 !.last = IdxNodeSz(ChildCnt([l EXCEPT !.i = l.cnt - 1])), !.step = @ * ul_fanout]
    /\ UNCHANGED <<ul_pc, ul_in, ul_fanout, ulHead, ul_flash, ul_flags, ul_index, ul_lpt, ul_lst, ulDone, ul_mst>>
IndexEnd ==
    /\ ul_pc = "index" /\ ul_level.i = ul_level.cnt /\ ul_level.cnt <= 1
    /\ ul_ihead' = [lnum |-> ul_lnum, offs |-> Align(ul_offs, UlMinIo)]
    /\ Becomes(FlushNodes(Head0, "index")) /\ ul_pc' = "count"
    /\ UNCHANGED <<ul_in, ul_fanout, ul_flags, ul_index, ul_level, ul_root, ul_idxsz, ul_gc, ul_mst, ul_lost>>

(* finalize_leb_cnt: only now the size is checked. *)
TooMany(n) == n > UlMaxLebs
FinalizeLebCnt ==
    /\ ul_pc = "count" /\ ul_pc' = IF TooMany(ul_lnum) THEN "failed" ELSE "lpt"
    /\ UNCHANGED <<ul_in, ul_fanout, ulHead, ul_flash, ul_flags, ul_index, ul_lpt, ul_lst, ul_level, ulDone, ul_mst>>

(* The other areas: write_lpt (create_lpt fills UlLptUsed LEBs), the super *)
(* block, two master nodes, the log and the orphans.                       *)
Area(pc, lebs, next) ==
    /\ ul_pc = pc /\ ul_pc' = next
    /\ ul_flash' = [l \in DOMAIN ul_flash |-> IF l \in DOMAIN lebs THEN lebs[l] ELSE ul_flash[l]]
    /\ UNCHANGED <<ul_in, ul_fanout, ulHead, ul_flags, ul_index, ul_lpt, ul_lst, ul_level, ulDone>>
Holding(what) == [nodes |-> <<[offs |-> 0, len |-> UlMinIo, node |-> what]>>, pad |-> <<"bytes", 0, 0>>, end |-> UlMinIo]
LptRest(n) == n + 1
WriteLpt ==
    LET nhead == UlLptFirst + UlLptUsed - 1
    IN  Area("lpt", [l \in (UlLptFirst .. nhead) \cup (LptRest(nhead) .. UlLptLast) |->
                        IF l <= nhead THEN Holding("lpt") ELSE Blank], "super") /\ UNCHANGED ul_mst
WriteSuper == Area("super", 0 :> Holding("super"), "master") /\ UNCHANGED ul_mst
Master == [root |-> ul_root, gc |-> ul_gc, ihead |-> ul_ihead, idxsz |-> ul_idxsz, lst |-> ul_lst, lebs |-> ul_lnum]
WriteMaster == Area("master", 1 :> Holding("master"), "master2") /\ ul_mst' = Master
WriteMaster2 == Area("master2", 2 :> Holding("master"), "log") /\ UNCHANGED ul_mst
WriteLog == Area("log", [l \in 3 .. 3 + UlLog - 1 |-> IF l = 3 THEN Holding("cs") ELSE Blank], "orphans") /\ UNCHANGED ul_mst
WriteOrphans == Area("orphans", [l \in UlLptLast + 1 .. UlMainFirst - 1 |-> Blank], "exit") /\ UNCHANGED ul_mst

(* write_leb fails, or the power does. *)
WriteFails ==
    /\ ul_pc \notin {"failed", "exit", "off"} /\ ul_pc' = "failed"
    /\ UNCHANGED <<ul_in, ul_fanout, ulHead, ul_flash, ul_flags, ul_index, ul_lpt, ul_lst, ul_level, ulDone, ul_mst>>

UlNext ==
    \/ AddNode \/ WriteDataEnd \/ SetGcLnum \/ SortIndex \/ IndexNode \/ IndexNodeLost \/ NextLevel \/ IndexEnd \/ FinalizeLebCnt
    \/ WriteLpt \/ WriteSuper \/ WriteMaster \/ WriteMaster2 \/ WriteLog \/ WriteOrphans \/ WriteFails

MainLebs == UlMainFirst .. ul_lnum - 1
Sum(f) == MapThenSumSet(LAMBDA l : f[l], DOMAIN f)
EndOf(n) == n.offs + n.len

(* In every LEB that was written the nodes follow each other at multiples  *)
(* of 8, the last ends within the LEB, and the padding fills the rest of   *)
(* its I/O unit exactly, so that a scan gets from the start to the free    *)
(* space (reserve_space, do_pad).                                          *)
LebsScan ==
    \A l \in DOMAIN ul_flash : ul_flash[l].nodes # <<>> =>
        LET b == ul_flash[l]
            n == Len(b.nodes)
        IN  /\ \A i \in 1 .. n - 1 : b.nodes[i + 1].offs = Align(EndOf(b.nodes[i]), 8)
            /\ EndOf(b.nodes[n]) <= UlLeb /\ b.end <= UlLeb /\ b.end % UlMinIo = 0
            /\ Align(EndOf(b.nodes[n]), 8) + b.pad[2] + b.pad[3] = b.end

(* Once the index is out, the properties recorded for each LEB of the main *)
(* area are those of what lies in it, and the totals of the master node    *)
(* are their sums (set_lprops, write_master).                              *)
LpropsTrue ==
    ul_mst # Nothing =>
        /\ DOMAIN ul_lpt = MainLebs
        /\ \A l \in MainLebs :
              LET b == ul_flash[l]
                  used == IF b.nodes = <<>> THEN 0 ELSE Align(EndOf(b.nodes[Len(b.nodes)]), 8)
              IN  ul_lpt[l].free = UlLeb - b.end /\ ul_lpt[l].free + ul_lpt[l].dirty + used = UlLeb
        /\ ul_mst.lst.free = Sum([l \in MainLebs |-> ul_lpt[l].free])
        /\ ul_mst.lst.dirty = Sum([l \in MainLebs |-> ul_lpt[l].dirty])
        /\ ul_mst.lst.idx = Cardinality({l \in MainLebs : ul_lpt[l].index})
        /\ ul_mst.lst.empty = Cardinality({l \in MainLebs : ul_lpt[l].free = UlLeb})

(* From the root the master node names, the branches lead to every node of *)
(* the tree, unless an index node was lost.  Each branch gives the place,  *)
(* length and key of what it leads to: a node of the tree at level 0,      *)
(* above it an index node of the next lower level, whose key is that of    *)
(* its first branch (write_index).                                         *)
At(lnum, offs) == LET b == ul_flash[lnum].nodes
                  IN  {b[i] : i \in {j \in DOMAIN b : b[j].offs = offs}}
Reached(level, places) ==
    LET f[k \in 0 .. level + 1] ==
            IF k = 0 THEN {<<p.lnum, p.offs>> : p \in places}
            ELSE UNION {UNION {{<<n.node.br[i].lnum, n.node.br[i].offs>> : i \in DOMAIN n.node.br} :
                               n \in At(p[1], p[2])} : p \in f[k - 1]}
    IN  f[level + 1]
IndexNodes(k) == LET all == FoldLeft(LAMBDA s, l : s \o ul_flash[l].nodes, <<>>, [i \in 1 .. ul_lnum - ul_gc - 1 |-> ul_gc + i])
                 IN  SelectSeq(all, LAMBDA n : n.node.level = k)
BranchTrue(k, br) ==
    \E n \in At(br.lnum, br.offs) :
        /\ n.len = br.len
        /\ IF k = 0 THEN "key" \in DOMAIN n.node /\ n.node.key = br.key
           ELSE "level" \in DOMAIN n.node /\ n.node.level = k - 1 /\ n.node.br[1].key = br.key
IndexFinds ==
    ul_mst # Nothing /\ ~ul_lost =>
        LET places == Reached(ul_level.no, {ul_mst.root})
        IN  /\ Cardinality(places) = Len(ul_in)
            /\ UNION {{n.node : n \in At(p[1], p[2])} : p \in places} = {ul_in[i] : i \in DOMAIN ul_in}
            /\ \A k \in 0 .. ul_level.no : \A n \in ToSet(IndexNodes(k)) : \A i \in DOMAIN n.node.br :
                  BranchTrue(k, n.node.br[i])

(* The keys of the branches of each level go up from left to right, and    *)
(* those of colliding names are in the order of the names, as the kernel's *)
(* search requires (cmp_idx; key of an index node = key of its first       *)
(* child).                                                                 *)
Keys(k) == FoldLeft(LAMBDA s, n : s \o n.node.br, <<>>, IndexNodes(k))
IndexOrdered ==
    ul_mst # Nothing /\ ~ul_lost => \A k \in 0 .. ul_level.no :
        \A i \in 1 .. Len(Keys(k)) - 1 :
            LET a == Keys(k)[i]
                b == Keys(k)[i + 1]
                leaf(x) == (CHOOSE n \in At(x.lnum, x.offs) : TRUE).node
            IN  /\ a.key <= b.key
                /\ k = 0 /\ a.key = b.key => leaf(a).name < leaf(b).name

(* A finished image has no LEB left of what the target held before, and    *)
(* fits the largest file system it was made for; until it is finished the  *)
(* super block is not written before all it leads to but the master, the   *)
(* log and the orphans is (the order of mkfs(), write_lpt).                *)
Complete(lebs) == \A l \in lebs : ul_flash[l] # Old
ImageComplete ==
    /\ ul_pc = "exit" => Complete(0 .. ul_lnum - 1) /\ ul_lnum <= UlMaxLebs
    /\ ul_pc # "off" /\ ul_flash[0] # Old => Complete(MainLebs \cup (UlLptFirst .. UlLptLast))
=============================================================================
