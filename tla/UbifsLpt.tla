------------------------------ MODULE UbifsLpt ------------------------------
(***************************************************************************)
(* lpt.c: create_lpt, which writes the tree of LEB properties: the leaves  *)
(* (pnodes, four LEBs each), level by level the nnodes above them, the     *)
(* save table of a big tree and the table of the tree's own LEBs.          *)
(***************************************************************************)
EXTENDS Sequences, SequencesExt, LptGeometry

CONSTANTS LtShapes,         \* [leb, io, max, lsave]
          LtMains,          \* LEBs of the main area the image turned out to have
          LtLptFirst,
          LtOverhead        \* LEBs of the areas other than main and LPT

VARIABLES lt_pc, lt_shape,
          lt_geo,           \* the geometry, for the largest file system
          lt_main,          \* c->main_lebs, of this file system
          lt_lnum, lt_len, lt_buf,      \* the LEB being filled
          lt_flash,         \* LEB -> [nodes, len]
          lt_ltab,          \* LEB -> [free, dirty]
          lt_cnt, lt_i,     \* nodes of this level, and those done
          lt_row,
          lt_below,         \* the level below: [lnum, offs, cnt, sz]
          lt_root, lt_at    \* c->lpt_lnum/offs; where ltab and lsave are

ltVars == <<lt_pc, lt_shape, lt_geo, lt_main, lt_lnum, lt_len, lt_buf, lt_flash, lt_ltab, lt_cnt, lt_i, lt_row,
            lt_below, lt_root, lt_at>>
ltHead == <<lt_lnum, lt_len, lt_buf, lt_flash, lt_ltab>>

LtOff ==
    /\ lt_pc = "off" /\ lt_shape = <<>> /\ lt_geo = <<>> /\ lt_main = 0 /\ lt_lnum = 0 /\ lt_len = 0 /\ lt_buf = <<>>
    /\ lt_flash = <<>> /\ lt_ltab = <<>> /\ lt_cnt = 0 /\ lt_i = 0 /\ lt_row = 0 /\ lt_below = <<>>
    /\ lt_root = <<>> /\ lt_at = <<>>

(* init: the geometry is that of the largest file system.  finalize_leb_cnt *)
(* then sets c->main_lebs to what was used.                                *)
LtInit ==
    /\ lt_shape \in LtShapes
    /\ lt_geo = CalcDfltLptGeom(lt_shape, lt_shape.max - LtOverhead)
    /\ lt_main \in LtMains \cup {lt_geo.main} /\ lt_main \in 1 .. lt_geo.main
    /\ lt_pc = "pnodes" /\ lt_lnum = LtLptFirst /\ lt_len = 0 /\ lt_buf = <<>> /\ lt_flash = <<>>
    /\ lt_ltab = [l \in LtLptFirst .. LtLptFirst + lt_geo.lpt - 1 |-> [free |-> lt_shape.leb, dirty |-> 0]]
    /\ lt_cnt = Ceil(lt_main, Fanout) /\ lt_i = 0 /\ lt_row = lt_geo.hght - 1
    /\ lt_below = [lnum |-> LtLptFirst, offs |-> 0, cnt |-> Ceil(lt_main, Fanout), sz |-> lt_geo.pnode]
    /\ lt_root = <<>> /\ lt_at = <<>>

(* A LEB that has no room for sz more bytes is written, and its properties *)
(* noted.                                                                  *)
Filled(b, sz) ==
    LET alen == RoundUp(b.len, lt_shape.io)
    IN  IF b.len + sz <= lt_shape.leb THEN b
        ELSE [lnum |-> b.lnum + 1, len |-> 0, buf |-> <<>>,
              flash |-> [l \in DOMAIN b.flash \cup {b.lnum} |->
                            IF l = b.lnum THEN [nodes |-> b.buf, len |-> alen] ELSE b.flash[l]],
              ltab |-> [l \in DOMAIN b.ltab \cup {b.lnum} |->
                            IF l = b.lnum THEN [free |-> lt_shape.leb - alen, dirty |-> alen - b.len] ELSE b.ltab[l]]]
Placed(b, node, sz) == [b EXCEPT !.buf = Append(@, [offs |-> b.len, sz |-> sz, n |-> node]), !.len = @ + sz]
Now == [lnum |-> lt_lnum, len |-> lt_len, buf |-> lt_buf, flash |-> lt_flash, ltab |-> lt_ltab]
Becomes(b) ==
    /\ lt_lnum' = b.lnum /\ lt_len' = b.len /\ lt_buf' = b.buf /\ lt_flash' = b.flash /\ lt_ltab' = b.ltab

(* A pnode holds the properties of four LEBs; those past the end are       *)
(* written as empty.                                                       *)
Pnode(i) == [k |-> "pnode", num |-> i, lebs |-> [j \in 0 .. Fanout - 1 |->
                IF i * Fanout + j < lt_main THEN i * Fanout + j ELSE -1]]
AddPnode ==
    /\ lt_pc = "pnodes" /\ lt_i < lt_cnt
    /\ Becomes(Placed(Filled(Now, lt_geo.pnode), Pnode(lt_i), lt_geo.pnode))
    /\ lt_i' = lt_i + 1
    /\ UNCHANGED <<lt_pc, lt_shape, lt_geo, lt_main, lt_cnt, lt_row, lt_below, lt_root, lt_at>>

(* The nnodes, a row at a time. *)
StartRow ==
    /\ lt_i = lt_cnt
    /\ \/ lt_pc = "pnodes" /\ lt_pc' = "nnodes" /\ UNCHANGED <<lt_row, lt_below>>
       \/ /\ lt_pc = "nnodes" /\ lt_row > 0 /\ lt_row' = lt_row - 1
          /\ lt_below' = [lt_below EXCEPT !.cnt = lt_cnt, !.sz = lt_geo.nnode] /\ UNCHANGED lt_pc
    /\ lt_cnt' = Max({1, Ceil(lt_cnt, Fanout)}) /\ lt_i' = 0
    /\ UNCHANGED <<lt_shape, lt_geo, lt_main, ltHead, lt_root, lt_at>>

(* The branches of an nnode: where the nodes of the level below were put   *)
(* is worked out again.                                                    *)
BranchAt(lnum, offs) == <<lnum, offs>>
NoBranch == <<0, 0>>
InNext(b) == b.offs + b.sz > lt_shape.leb
Branches ==
    LET f[j \in 0 .. Fanout] ==
            IF j = 0 THEN [b |-> lt_below, br |-> <<>>]
            ELSE LET p == f[j - 1].b
                     at == IF InNext(p) THEN [p EXCEPT !.lnum = @ + 1, !.offs = 0] ELSE p
                 IN  IF p.cnt = 0 THEN [f[j - 1] EXCEPT !.br = Append(@, NoBranch)]
                     ELSE [b |-> [at EXCEPT !.offs = @ + p.sz, !.cnt = @ - 1],
                           br |-> Append(f[j - 1].br, BranchAt(at.lnum, at.offs))]
    IN  f[Fanout]

(* calc_nnode_num: the path from the root, two bits for each row. *)
NnodeNum(row, col) ==
    LET f[r \in 0 .. row] == IF r = 0 THEN [num |-> 1, col |-> col]
                             ELSE [num |-> f[r - 1].num * Fanout + (f[r - 1].col % Fanout), col |-> f[r - 1].col \div Fanout]
    IN  f[row].num
AddNnode ==
    /\ lt_pc = "nnodes" /\ lt_i < lt_cnt
    /\ LET b == Filled(Now, lt_geo.nnode)
       IN  /\ Becomes(Placed(b, [k |-> "nnode", num |-> NnodeNum(lt_row, lt_i), br |-> Branches.br], lt_geo.nnode))
           /\ lt_root' = IF lt_row = 0 THEN <<b.lnum, b.len>> ELSE lt_root
    /\ lt_below' = Branches.b /\ lt_i' = lt_i + 1
    /\ UNCHANGED <<lt_pc, lt_shape, lt_geo, lt_main, lt_cnt, lt_row, lt_at>>

(* The save table of a big tree, then the table of the tree's own LEBs,    *)
(* which is updated before it is packed.                                   *)
Lsave(b) == IF ~lt_geo.big THEN b
            ELSE Placed(Filled(b, lt_geo.lsave), [k |-> "lsave"], lt_geo.lsave)
TabOf(b) ==
    LET alen == RoundUp(b.len, lt_shape.io)
    IN  [l \in DOMAIN b.ltab \cup {b.lnum} |->
            IF l = b.lnum THEN [free |-> lt_shape.leb - alen, dirty |-> alen - b.len] ELSE b.ltab[l]]
WriteTables ==
    /\ lt_pc = "nnodes" /\ lt_i = lt_cnt /\ lt_row = 0
    /\ LET s == Lsave(Now)
           f == Filled(s, lt_geo.ltab)
           len == [f EXCEPT !.len = @ + lt_geo.ltab]
           tab == TabOf(len)
           b == Placed(f, [k |-> "ltab", tab |-> tab], lt_geo.ltab)
       IN  /\ Becomes([b EXCEPT !.ltab = tab,
                                !.flash = [l \in DOMAIN @ \cup {b.lnum} |->
                                    IF l = b.lnum THEN [nodes |-> b.buf, len |-> RoundUp(b.len, lt_shape.io)] ELSE @[l]]])
           /\ lt_at' = [ltab |-> <<f.lnum, f.len>>]
    /\ lt_pc' = "exit"
    /\ UNCHANGED <<lt_shape, lt_geo, lt_main, lt_cnt, lt_i, lt_row, lt_below, lt_root>>
WriteFails ==
    /\ lt_pc \in {"pnodes", "nnodes"} /\ lt_pc' = "failed"
    /\ UNCHANGED <<lt_shape, lt_geo, lt_main, ltHead, lt_cnt, lt_i, lt_row, lt_below, lt_root, lt_at>>

LtNext == AddPnode \/ StartRow \/ AddNnode \/ WriteTables \/ WriteFails

Made == lt_pc = "exit"
NodeAt(p) == LET b == IF p[1] \in DOMAIN lt_flash THEN lt_flash[p[1]].nodes ELSE <<>>
             IN  {b[i].n : i \in {j \in DOMAIN b : b[j].offs = p[2]}}

(* Down from the root, through as many rows as the geometry has, the       *)
(* branches picked by the digits of a LEB's number lead to the pnode that  *)
(* holds this LEB, for every LEB of the main area; the height is that of   *)
(* the largest file system, whatever this one needs (create_lpt).          *)
LptFinds ==
    Made => \A leb \in 0 .. lt_main - 1 :
        LET h == lt_geo.hght
            digit(r) == (leb \div (Fanout ^ (h - r))) % Fanout
            f[r \in 0 .. h] ==             \* the nodes at the place the branches lead to
                IF r = 0 THEN NodeAt(lt_root)
                ELSE UNION {NodeAt(n.br[digit(r - 1) + 1]) : n \in {x \in f[r - 1] : x.k = "nnode"}}
        IN  \E n \in f[h] : n.k = "pnode" /\ n.lebs[leb % Fanout] = leb

(* The tree stays within the LEBs set aside for it and takes at most the   *)
(* size calculated, wastage included; every node and table lies within     *)
(* one LEB (do_calc_lpt_geom against create_lpt).                          *)
UsedBytes == MapThenSumSet(LAMBDA l : lt_flash[l].len, DOMAIN lt_flash)
LptFits ==
    Made => /\ DOMAIN lt_ltab = LtLptFirst .. LtLptFirst + lt_geo.lpt - 1
            /\ UsedBytes <= lt_geo.sz
            /\ \A l \in DOMAIN lt_flash : lt_flash[l].len <= lt_shape.leb

(* The table of the tree's own LEBs, as it was packed, gives for each LEB  *)
(* what is free in it, the space that was not written, and what is dirty,  *)
(* the written space behind the last node (set_ltab, pack_ltab).           *)
LtabTrue ==
    Made => \A t \in NodeAt(lt_at.ltab) : t.k = "ltab" =>
        \A l \in DOMAIN t.tab :
            LET b == lt_flash[l]
                used == b.nodes[Len(b.nodes)].offs + b.nodes[Len(b.nodes)].sz
            IN  IF l \in DOMAIN lt_flash THEN t.tab[l] = [free |-> lt_shape.leb - b.len, dirty |-> b.len - used]
                ELSE t.tab[l] = [free |-> lt_shape.leb, dirty |-> 0]

(* Every number of the tree fits the bits its geometry gives it: free      *)
(* space in units of 8, LEB numbers relative to the tree with one for "no  *)
(* branch", offsets (pack_pnode, pack_nnode, pack_ltab), and the numbers   *)
(* of the nodes of a big tree.                                             *)
NumbersFit ==
    Made =>
        /\ lt_shape.leb \div 8 < 2 ^ lt_geo.space /\ lt_geo.lpt < 2 ^ lt_geo.lnum
        /\ \A l \in DOMAIN lt_flash : \A i \in DOMAIN lt_flash[l].nodes :
              LET x == lt_flash[l].nodes[i]
              IN  /\ x.offs < 2 ^ lt_geo.offs
                  /\ lt_geo.big /\ x.n.k \in {"pnode", "nnode"} => x.n.num < 2 ^ lt_geo.pcnt
        /\ \A l \in DOMAIN lt_ltab : lt_ltab[l].free < 2 ^ lt_geo.spc

-----------------------------------------------------------------------------
(***************************************************************************)
(* lpt.c: pack_bits, and the nodes of the LPT packed with it field by      *)
(* field.  The buffer is what malloc returned.  Values are given relative  *)
(* to their width: "all" is the largest the field holds.                   *)
(***************************************************************************)

CONSTANTS PbShapes, PbAll,  \* [leb, io, max, lsave]; LEBs for main area and LPT together
          PbKinds, PbFills  \* node kinds; "none", "one", "all", "odd"

VARIABLES pb_pc, pb_geo, pb_lsave, pb_kind, pb_buf, pb_p, pb_b,
          pb_fill,          \* how the fields are filled, by their place modulo 3
          pb_done           \* the fields packed: [w, v]

pbVars == <<pb_pc, pb_geo, pb_lsave, pb_kind, pb_buf, pb_p, pb_b, pb_fill, pb_done>>

CrcBytes == 2
Garbage == 170

PbOff ==
    /\ pb_pc = "off" /\ pb_geo = <<>> /\ pb_lsave = 0 /\ pb_kind = "" /\ pb_buf = <<>> /\ pb_p = 0 /\ pb_b = 0
    /\ pb_fill = <<>> /\ pb_done = <<>>

(* pack_bits.  A byte that is entered at its first bit is set, otherwise   *)
(* or-ed; what does not fit goes to the bytes behind.                      *)
Low(v) == v % 256
FirstByte(old, v, b) == IF b = 0 THEN Low(v) ELSE (old % 2 ^ b) + Low(Low(v) * 2 ^ b)
Packed(buf, p, b, v, n) ==
    LET more == (n + b - 1) \div 8
    IN  [i \in DOMAIN buf \cup (p .. p + more) |->
            IF i = p THEN FirstByte(IF p \in DOMAIN buf THEN buf[p] ELSE Garbage, v, b)
            ELSE IF i > p /\ i <= p + more THEN Low(v \div 2 ^ (8 * (i - p) - b))
            ELSE buf[i]]
NextPos(p, b, n) == <<p + (n + b) \div 8, (n + b) % 8>>

(* pack_pnode, pack_nnode, pack_ltab, pack_lsave: the widths, in order. *)
Repeat(ws, n) == [i \in 1 .. n * Len(ws) |-> ws[((i - 1) % Len(ws)) + 1]]
Number(g) == IF g.big THEN <<g.pcnt>> ELSE <<>>
Fields(g, kind, saved) ==
    <<TypeBits>> \o
    CASE kind = "pnode" -> Number(g) \o Repeat(<<g.space, g.space, 1>>, Fanout)
      [] kind = "nnode" -> Number(g) \o Repeat(<<g.lnum, g.offs>>, Fanout)
      [] kind = "ltab"  -> Repeat(<<g.spc, g.spc>>, g.lpt)
      [] kind = "lsave" -> Repeat(<<g.lnums>>, saved)
Size(g, kind) == CASE kind = "pnode" -> g.pnode [] kind = "nnode" -> g.nnode
                   [] kind = "ltab" -> g.ltab [] kind = "lsave" -> g.lsave

PbInit ==
    /\ \E s \in PbShapes : pb_geo = CalcDfltLptGeom(s, PbAll) /\ pb_lsave = s.lsave
    /\ pb_geo # NoGeometry /\ pb_kind \in PbKinds /\ (pb_kind = "lsave" => pb_geo.big)
    /\ pb_pc = "fields" /\ pb_buf = <<>> /\ pb_p = CrcBytes /\ pb_b = 0 /\ pb_done = <<>>
    /\ pb_fill \in [0 .. 2 -> PbFills]

Filling(w, f) == CASE f = "none" -> 0 [] f = "one" -> 1 [] f = "all" -> 2 ^ w - 1 [] f = "odd" -> (2 ^ w - 1) \div 3
PackField ==
    /\ pb_pc = "fields" /\ Len(pb_done) < Len(Fields(pb_geo, pb_kind, pb_lsave))
    /\ LET w == Fields(pb_geo, pb_kind, pb_lsave)[Len(pb_done) + 1]
           v == Filling(w, pb_fill[Len(pb_done) % 3])
       IN  /\ pb_buf' = Packed(pb_buf, pb_p, pb_b, v, w)
           /\ pb_p' = NextPos(pb_p, pb_b, w)[1] /\ pb_b' = NextPos(pb_p, pb_b, w)[2]
           /\ pb_done' = Append(pb_done, [w |-> w, v |-> v])
    /\ UNCHANGED <<pb_pc, pb_geo, pb_lsave, pb_kind, pb_fill>>

(* The CRC of the rest is packed in front. *)
PackCrc ==
    /\ pb_pc = "fields" /\ Len(pb_done) = Len(Fields(pb_geo, pb_kind, pb_lsave)) /\ pb_pc' = "done"
    /\ \E crc \in {0, 2 ^ CrcBits - 1} : pb_buf' = Packed(pb_buf, 0, 0, crc, CrcBits)
    /\ UNCHANGED <<pb_geo, pb_lsave, pb_kind, pb_p, pb_b, pb_fill, pb_done>>

PbNext == PackField \/ PackCrc

Bit(i) == (pb_buf[i \div 8] \div 2 ^ (i % 8)) % 2

(* Every field packed so far is read back, bit for bit, from its place     *)
(* behind the fields before it, whatever the widths and whatever was in    *)
(* the buffer (pack_bits).                                                 *)
FieldsReadBack ==
    pb_pc # "off" =>
        LET f[i \in 0 .. Len(pb_done)] == IF i = 0 THEN 8 * CrcBytes ELSE f[i - 1] + pb_done[i].w
        IN  \A i \in DOMAIN pb_done : \A k \in 0 .. pb_done[i].w - 1 :
                Bit(f[i - 1] + k) = (pb_done[i].v \div 2 ^ k) % 2

(* A packed node takes the bytes the geometry says, neither more nor fewer *)
(* (do_calc_lpt_geom against pack_pnode, pack_nnode, pack_ltab,            *)
(* pack_lsave): the next node is put right behind.                         *)
NodesSized ==
    pb_pc = "done" => DOMAIN pb_buf = 0 .. Size(pb_geo, pb_kind) - 1
=============================================================================
