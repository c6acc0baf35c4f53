---------------------------- MODULE LptGeometry ----------------------------
(***************************************************************************)
(* lpt.c: the sizes of the tree of LEB properties (LPT), which depend on   *)
(* the number of LEBs left for it and decide that number.  A geometry is   *)
(* computed from [leb, io, max, lsave] (LEB size, I/O unit, most LEBs of   *)
(* the file system, entries of the save table) and the LEBs it is for.     *)
(***************************************************************************)
EXTENDS Integers, FiniteSets, FiniteSetsExt

Fanout == 4
CrcBits == 16
TypeBits == 4
MinLptLebs == 2

RoundUp(n, a) == ((n + a - 1) \div a) * a
Bytes(bits) == (bits + 7) \div 8
Ceil(n, d) == (n + d - 1) \div d

(* fls: the position of the highest bit set. *)
Fls(n) == Cardinality({k \in 0 .. 30 : 2 ^ k <= n})

(* The nnodes of all levels above n nodes, and the levels. *)
NnodesAbove(n) == LET f[k \in 0 .. 16] == IF k = 0 THEN Ceil(n, Fanout) ELSE Ceil(f[k - 1], Fanout)
                      top == CHOOSE k \in 0 .. 16 : f[k] <= 1 /\ \A j \in 0 .. k - 1 : f[j] > 1
                  IN  MapThenSumSet(LAMBDA k : f[k], 0 .. top)
Height(n) == CHOOSE h \in 1 .. 16 : Fanout ^ h >= n /\ \A g \in 1 .. h - 1 : Fanout ^ g < n

(* What is lost at the end of each LEB the tree fills, and in the last I/O *)
(* unit.                                                                   *)
Wastage(sz, per, s) ==
    LET f[k \in Nat] == IF k = 0 THEN sz + per ELSE f[k - 1] + per - s.leb
        last == CHOOSE k \in 0 .. sz : f[k] <= s.leb /\ \A j \in 0 .. k - 1 : f[j] > s.leb
    IN  per * (last + 1) + RoundUp(f[last], s.io) - f[last]

(* do_calc_lpt_geom.  A LEB number of the tree is relative to its first    *)
(* LEB; one more stands for "no branch".                                   *)
LnumBitsOfLast(lpt) == Fls(lpt - 1)         \* mutant: no room for "no branch"
LnumBits(lpt) == Fls(lpt)
PnodeBits(space) == (space * 2 + 1) * Fanout
Geometry(s, main, lpt, big) ==
    LET pcnt == Fls(Ceil(s.max, Fanout) - 1)
        common == CrcBits + TypeBits
        num == IF big THEN pcnt ELSE 0
        pnodes == Ceil(main, Fanout)
        pnode == Bytes(common + num + PnodeBits(Fls(s.leb) - 3))
        nnode == Bytes(common + num + (LnumBits(lpt) + Fls(s.leb - 1)) * Fanout)
        ltab == Bytes(common + lpt * Fls(s.leb) * 2)
        lsave == Bytes(common + Fls(s.max - 1) * s.lsave)
        least == pnodes * pnode + NnodesAbove(pnodes) * nnode + ltab + lsave
    IN  [main |-> main, lpt |-> lpt, big |-> big, hght |-> Height(pnodes), pnode |-> pnode, nnode |-> nnode,
         ltab |-> ltab, lsave |-> lsave, space |-> Fls(s.leb) - 3, lnum |-> LnumBits(lpt), offs |-> Fls(s.leb - 1),
         spc |-> Fls(s.leb), lnums |-> Fls(s.max - 1), pcnt |-> pcnt,
         sz |-> least + Wastage(least, Max({pnode, nnode}), s)]

(* calc_dflt_lpt_geom: more LEBs until four times the tree fits; at most   *)
(* 64 attempts.                                                            *)
NoGeometry == [lpt |-> 0, main |-> 0]
FourTimes(g, s) == Ceil(4 * g.sz, s.leb)
RECURSIVE Enough(_, _, _, _)
Enough(g, s, all, attempts) ==
    LET need == FourTimes(g, s)
    IN  IF attempts = 0 THEN NoGeometry
        ELSE IF need <= g.lpt THEN IF g.ltab > s.leb THEN NoGeometry ELSE g
        ELSE IF all - need <= 0 THEN NoGeometry
        ELSE Enough(Geometry(s, all - need, need, g.big), s, all, attempts - 1)
CalcDfltLptGeom(s, all) ==
    LET first(big) == Geometry(s, all - MinLptLebs, MinLptLebs, big)
    IN  IF all - MinLptLebs <= 0 THEN NoGeometry ELSE Enough(first(first(FALSE).sz > s.leb), s, all, 64)
=============================================================================
