----------------------------- MODULE MCHostTools -----------------------------
(***************************************************************************)
(* The programs that run on the host: the parts of kconfig, the compiler   *)
(* of board configurations, the builder of NAND images and its code, and   *)
(* the erasure code of the multicast tools. One of them is run: their      *)
(* state spaces side by side.                                              *)
(***************************************************************************)
EXTENDS Integers, Sequences, FiniteSets, Functions

VARIABLES tool, ke_pc, ke_in, ke_out, ks_pc, ks_prog, ks_st, ks_ops, ks_file, ks_saved,
    ks_wish, ks_gap, kco_pc, kco_prog, kco_mode, kco_st, kco_i, kco_j, kco_cnt, kco_walks,
    kco_new, kco_old, kd_pc, kd_g, kd_i, kd_st, kd_errs, ka_pc, ka_val, ka_auto,
    ka_header, ka_touched, ka_new, ka_built, ka_i, ka_n, kp_pc, kp_files, kp_buf, kp_file,
    kp_parent, kp_open, kp_menu, kp_entries, kp_errs, fx_pc, fx_run, fx_opt, fx_in,
    fx_len, fx_i, fx_script, fx_first, fx_why, fx_count, fx_buf, fx_out, fx_left, fx_ret,
    fe_pc, fe_c, fe_t, fe_p, fe_coef, fe_m, fe_enc, fe_pkt, fe_sent, fe_index, fe_i,
    fe_piv, fe_swap, fe_ret, bc_pc, bc_c, bc_pow, bc_log, bc_x, bc_g, bc_tab, bc_xi,
    bc_parts, bc_rest, bc_ecc, bc_r, ni_pc, ni_o, ni_src, ni_bad, ni_fail, ni_pos, ni_eof,
    ni_base, ni_out, ni_page, ni_i, ni_ret

keVars == <<ke_pc, ke_in, ke_out>>
ksVars == <<ks_pc, ks_prog, ks_st, ks_ops, ks_file, ks_saved, ks_wish, ks_gap>>
koVars == <<kco_pc, kco_prog, kco_mode, kco_st, kco_i, kco_j, kco_cnt, kco_walks, kco_new,
    kco_old>>
kdVars == <<kd_pc, kd_g, kd_i, kd_st, kd_errs>>
kaVars == <<ka_pc, ka_val, ka_auto, ka_header, ka_touched, ka_new, ka_built, ka_i, ka_n>>
kpVars == <<kp_pc, kp_files, kp_buf, kp_file, kp_parent, kp_open, kp_menu, kp_entries,
    kp_errs>>
fxVars == <<fx_pc, fx_run, fx_opt, fx_in, fx_len, fx_i, fx_script, fx_first, fx_why,
    fx_count, fx_buf, fx_out, fx_left, fx_ret>>
fecVars == <<fe_pc, fe_c, fe_t, fe_p, fe_coef, fe_m, fe_enc, fe_pkt, fe_sent, fe_index,
    fe_i, fe_piv, fe_swap, fe_ret>>
bchVars == <<bc_pc, bc_c, bc_pow, bc_log, bc_x, bc_g, bc_tab, bc_xi, bc_parts, bc_rest,
    bc_ecc, bc_r>>
niVars == <<ni_pc, ni_o, ni_src, ni_bad, ni_fail, ni_pos, ni_eof, ni_base, ni_out,
    ni_page, ni_i, ni_ret>>
allVars == <<tool, keVars, ksVars, koVars, kdVars, kaVars, kpVars, fxVars, fecVars,
    bchVars, niVars>>

KcSym(s) == [t |-> "sym", s |-> s]
KcNot(e) == [t |-> "not", l |-> e]
KcCmp(t, s, c) == [t |-> t, s |-> s, c |-> c]
KcTwo(t, e, f) == [t |-> t, l |-> e, r |-> f]
KcLeaves ==
    {KcSym(s) : s \in {"A", "B", "y", "n", "m"}} \cup {KcNot(KcSym(s)) : s \in {"A", "B"}}
    \cup {KcCmp(t, s, c) : t \in {"eq", "neq"}, s \in {"A", "B"}, c \in {"y", "m", "n"}}
KcSigned == {KcSym("A"), KcSym("B"), KcNot(KcSym("A")), KcNot(KcSym("B"))}
KcFew == {KcSym("A"), KcSym("B"), KcNot(KcSym("A")), KcNot(KcSym("B")), KcCmp("eq", "B", "m")}
KcOps == {"and", "or"}
KcPairs(leaves) == {KcTwo(t, e, f) : t \in KcOps, e \in leaves, f \in leaves}
KcDeep ==
    KcPairs(KcLeaves) \cup {KcNot(e) : e \in KcPairs(KcFew)}
    \cup {KcTwo(t, e, f) : t \in KcOps, e \in KcPairs(KcSigned), f \in KcPairs(KcSigned)}
KcRewrites ==
    {[op |-> "simplify", e |-> e, f |-> [t |-> "none"]] : e \in KcDeep}
    \cup {[op |-> "prompt", e |-> e, f |-> f] : e \in KcPairs(KcLeaves), f \in {KcSym("B"), KcNot(KcSym("A"))}}
    \cup {[op |-> "simplify", e |-> e, f |-> f] : e \in KcPairs(KcFew), f \in KcLeaves}
    \cup {[op |-> "below", e |-> e, f |-> f, prompt |-> p] :
            e \in KcPairs(KcFew) \cup {[t |-> "none"]}, f \in KcPairs(KcFew), p \in BOOLEAN}

KcAnd(e, f) == KcTwo("and", e, f)
KcY == KcSym("y")
KcDef(e, c) == [val |-> e, vis |-> c]
KcNone == [s \in {} |-> 0]
KcProgram(syms, hash, prompts, defaults, revs, types) ==
    LET of(f, d) == [s \in Range(syms) |-> IF s \in DOMAIN f THEN f[s] ELSE d]
    IN  [syms |-> syms, hash |-> hash, type |-> of(types, "bool"), prompts |-> of(prompts, <<>>),
         defaults |-> of(defaults, <<>>), dir |-> of(KcNone, KcY), rev |-> of(revs, KcSym("n")),
         range |-> of(KcNone, <<>>), choice |-> "none", values |-> <<>>, optional |-> TRUE,
         modules |-> "none", below |-> of(KcNone, <<>>)]
\* A selects C if B; B has a default; D is visible where C is n.
KcSelects ==
    [KcProgram(<<"A", "B", "C", "D">>, <<"D", "C", "A", "B">>,
        [A |-> <<KcY>>, B |-> <<KcSym("A")>>, D |-> <<KcNot(KcSym("C"))>>, C |-> <<KcSym("B")>>],
        [B |-> <<KcDef(KcNot(KcSym("A")), KcY)>>,
         D |-> <<KcDef(KcSym("y"), KcSym("A")), KcDef(KcSym("B"), KcY)>>],
        [C |-> KcAnd(KcSym("A"), KcSym("B"))], KcNone)
     EXCEPT !.below["A"] = <<"B">>, !.below["B"] = <<"C">>]
\* Tristates, with and without modules.
KcModules ==
    [KcProgram(<<"M", "T", "U", "S">>, <<"S", "U", "M", "T">>,
        [M |-> <<KcY>>, T |-> <<KcY>>, U |-> <<KcSym("T")>>, S |-> <<KcCmp("eq", "T", "m")>>],
        [U |-> <<KcDef(KcSym("m"), KcY)>>, S |-> <<KcDef(KcSym("y"), KcSym("U"))>>],
        [S |-> KcSym("U")], [T |-> "tri", U |-> "tri", S |-> "tri"])
     EXCEPT !.modules = "M", !.below["T"] = <<"U", "S">>]
\* E comes first and is visible if B, which is visible if A.
KcBackward ==
    [KcProgram(<<"E", "A", "B">>, <<"B", "E", "A">>,
        [E |-> <<KcSym("B")>>, A |-> <<KcY>>, B |-> <<KcSym("A")>>], KcNone, KcNone, KcNone)
     EXCEPT !.below["A"] = <<"B">>]
\* P, visible if Z, is y by itself and stands above Q; Z comes last.
KcAbove ==
    [KcProgram(<<"P", "Q", "Z">>, <<"Z", "Q", "P">>,
        [P |-> <<KcSym("Z")>>, Q |-> <<KcSym("P")>>, Z |-> <<KcY>>], [P |-> <<KcDef(KcY, KcY)>>], KcNone, KcNone)
     EXCEPT !.below["P"] = <<"Q">>]
\* A choice of X, Y if A, Z; its default is Y; W depends on X.
KcChoice(optional) ==
    [KcProgram(<<"A", "H", "X", "Y", "Z", "W">>, <<"Z", "W", "X", "H", "Y", "A">>,
        [A |-> <<KcY>>, H |-> <<KcY>>, X |-> <<KcSym("H")>>, Z |-> <<KcSym("H")>>,
         Y |-> <<KcAnd(KcSym("H"), KcSym("A"))>>, W |-> <<KcSym("X")>>],
        [A |-> <<KcDef(KcY, KcY)>>, H |-> <<KcDef(KcSym("Y"), KcY)>>, W |-> <<KcDef(KcSym("y"), KcY)>>],
        [H |-> IF optional THEN KcSym("n") ELSE KcAnd(KcY, KcSym("m"))], KcNone)
     EXCEPT !.choice = "H", !.values = <<"X", "Y", "Z">>, !.below["H"] = <<"X", "Y", "Z">>, !.optional = optional]
\* A tristate choice.
KcTriChoice ==
    [KcProgram(<<"M", "H", "X", "Y">>, <<"Y", "X", "H", "M">>,
        [M |-> <<KcY>>, H |-> <<KcY>>, X |-> <<KcSym("H")>>, Y |-> <<KcSym("H")>>], KcNone,
        [H |-> KcAnd(KcY, KcSym("m"))], [H |-> "tri", X |-> "tri", Y |-> "tri"])
     EXCEPT !.choice = "H", !.values = <<"X", "Y">>, !.below["H"] = <<"X", "Y">>, !.optional = FALSE, !.modules = "M"]
\* Ints: N from 2 to 4 if A; K from 1 to N.
KcNum(n) == [t |-> "num", n |-> n]
KcInts ==
    [KcProgram(<<"A", "N", "K">>, <<"K", "A", "N">>,
        [A |-> <<KcY>>, N |-> <<KcY>>, K |-> <<KcSym("A")>>],
        [N |-> <<KcDef(KcNum(5), KcNot(KcSym("A"))), KcDef(KcNum(3), KcY)>>,
         K |-> <<KcDef(KcNum(3), KcNot(KcSym("A")))>>], KcNone,
        [N |-> "int", K |-> "int"])
     EXCEPT !.range = [A |-> <<>>, N |-> <<KcSym("A"), KcNum(2), KcNum(4)>>,
                       K |-> <<KcY, KcNum(1), KcSym("N")>>]]
\* K as it is by default and invisible, and K greater than N.
KcIntFiles == {<<<<"A", 0>>, <<"N", 5>>, <<"K", 3>>>>, <<<<"A", 2>>, <<"N", 2>>, <<"K", 3>>>>}
KcKconfigs == {KcSelects, KcAbove, KcModules, KcChoice(TRUE), KcChoice(FALSE), KcTriChoice, KcInts}

\* All dependencies of three symbols, and of a choice of X and Y with a symbol A.
KcSeqs(nodes) == {SelectSeq(<<"A", "B", "C", "H", "X", "Y">>, LAMBDA s : s \in t) : t \in SUBSET nodes}
KcGraph(deps, order, choice, values) ==
    [deps |-> deps, order |-> order, choice |-> choice, values |-> values]
KcGraphs ==
    {KcGraph(d, <<"A", "B", "C">>, "none", <<>>) :
        d \in [{"A", "B", "C"} -> KcSeqs({"A", "B", "C"})]}
    \cup {KcGraph([A |-> a, H |-> h, X |-> <<"H">> \o x, Y |-> <<"H">> \o y], order, "H", <<"X", "Y">>) :
            a \in KcSeqs({"A", "H", "X"}), h \in KcSeqs({"A", "X"}), x \in KcSeqs({"A", "Y"}),
            y \in KcSeqs({"A"}), order \in {<<"A", "H", "X", "Y">>, <<"Y", "X", "A", "H">>}}

\* A root of up to four statements and a file it may include.
KcFile(stmts, nl) == [stmts |-> stmts, nl |-> nl]
KcWords == {"config", "if", "endif", "menu", "endmenu"}
KcRoots ==
    [1 .. 4 -> {"if", "endif", "menu", "endmenu", "source sub"}]
    \cup [1 .. 3 -> KcWords \cup {"choice", "endchoice", "source sub"}]
KcSubs == {KcFile(<<"if", "config", "endif">>, TRUE), KcFile(<<"endif">>, TRUE), KcFile(<<"endif">>, FALSE),
           KcFile(<<"config", "if">>, FALSE), KcFile(<<"menu">>, TRUE)}
KcTrees ==
    {[root |-> KcFile(r, TRUE), sub |-> s] : r \in KcRoots, s \in KcSubs}
    \cup {[root |-> KcFile(<<"config", r>>, TRUE), sub |-> KcFile(s, TRUE)] :
            r \in {"source sub", "source root", "source gone"},
            s \in {<<"config", "source root">>, <<"source sub">>, <<"source sub", "config", "source root">>}}
FexEntry(name, val) == [k |-> "entry", name |-> name, val |-> val]
FexNum(v) == [t |-> "num", v |-> v, junk |-> FALSE]
FexPort(port, num, data) == [t |-> "port", port |-> port, num |-> num, data |-> data]
FexX(n) == [k \in 1 .. n |-> "x"]
FexLines ==
    {FexEntry(n, FexNum(v)) : n \in {<<"c">>, <<"z", "0">>}, v \in {-17, -1, 7, 8, 15, 16}}
    \cup {FexEntry(n, [t |-> "quoted", s |-> s]) : n \in {<<>>, <<"c">>}, s \in {<<>>, FexX(4), FexX(5), FexX(7) \o <<";", "x">>}}
    \cup {FexEntry(<<"p", "c">>, FexPort(p, n, d)) : p \in {2, 3, 4, 9999}, n \in {3, 4}, d \in {<<>>, <<1, -1>>, <<-1, 7, 0, 2>>}}
    \cup {FexEntry(<<"q">>, FexPort(1, 0, d)) : d \in {<<-2>>, <<8>>, <<0, 0, 0, 0, 0>>}}
    \cup {FexEntry(n, [t |-> "none"]) : n \in {<<>>, <<"c", "k", "l">>}}
    \cup {FexEntry(<<"c">>, [t |-> "bare", s |-> <<"x">>]), FexEntry(<<"c">>, [t |-> "num", v |-> 1, junk |-> TRUE]),
          [k |-> "junk"], [k |-> "skip", s |-> FexX(7) \o <<"[", "d", "]">>], [k |-> "section", name |-> <<"d">>], [k |-> "section", name |-> <<>>]}
FexDramLine == [k |-> "section", name |-> <<"d">>]
FexFew == {FexEntry(<<"c">>, FexNum(9)), FexEntry(<<"c">>, [t |-> "quoted", s |-> <<"x">>]), FexEntry(<<"c", "k">>, [t |-> "none"]), FexDramLine}
FexInputs ==
    {<<FexDramLine, l>> : l \in FexLines} \cup {<<l>> : l \in FexLines}
    \cup {<<FexDramLine, k, l>> : k \in FexFew, l \in FexLines}
    \cup {<<FexDramLine, k, FexDramLine, l>> : k, l \in FexFew}
FexLeaf(name, val) == [name |-> name, val |-> val]
FexVals ==
    {[t |-> "null"], [t |-> "single", v |-> 12], [t |-> "string", s |-> FexX(7)],
     [t |-> "gpio", port |-> 3, num |-> 0, data |-> <<0, 0, 0, 0>>],
     [t |-> "gpio", port |-> 2, num |-> 9, data |-> <<0, 0, 0, 0>>],
     [t |-> "gpio", port |-> 1, num |-> 1, data |-> <<0, -1, -2, 0>>]}
FexTreeInputs ==
    {<<[name |-> <<"d">>, entries |-> <<FexLeaf(<<"c">>, v)>>], [name |-> <<"e">>, entries |-> <<FexLeaf(<<>>, w)>>]>> :
        v \in FexVals, w \in {[t |-> "null"], [t |-> "string", s |-> <<"x">>]}}
    \cup {<<[name |-> n, entries |-> <<FexLeaf(<<"c">>, [t |-> "string", s |-> s])>>]>> :
            n \in {<<"d">>, <<"-">>, <<>>},
            s \in {<<"nl", ";">>, <<"x", "nl", "k", "=", "x">>, <<"x", "\"", "nl", "k", "=", "1">>}}
    \cup {<<[name |-> <<"d">>, entries |-> <<FexLeaf(n, v)>>]>> :
            n \in {<<";", "c">>, <<"c", "=">>, <<"c", "-">>}, v \in {[t |-> "null"], [t |-> "single", v |-> 12]}}

FecCodes ==
    [bits : {2}, k : 1 .. 4, n : 1 .. 4, more : {1}] \cup [bits : {3}, k : {2, 3}, n : {5, 8}, more : {2}]
    \cup {[bits |-> 3, k |-> 5, n |-> 8, more |-> 0], [bits |-> 8, k |-> 3, n |-> 5, more |-> 0],
          [bits |-> 2, k |-> 2, n |-> 5, more |-> 0], [bits |-> 8, k |-> 257, n |-> 257, more |-> 0]}
FecRising(f) == \A i, j \in DOMAIN f : i < j => f[i] < f[j]
FecVectors(k, n) ==
    IF k <= 3 \/ n <= 4 THEN [0 .. k - 1 -> 0 .. n] ELSE {f \in [0 .. k - 1 -> 0 .. n - 1] : FecRising(f)}

BchCodes ==
    {[m |-> 5, t |-> 1, poly |-> 0], [m |-> 5, t |-> 3, poly |-> 0], [m |-> 5, t |-> 6, poly |-> 61],
     [m |-> 6, t |-> 2, poly |-> 0], [m |-> 5, t |-> 2, poly |-> 63], [m |-> 5, t |-> 2, poly |-> 67],
     [m |-> 4, t |-> 1, poly |-> 0], [m |-> 5, t |-> 0, poly |-> 0], [m |-> 5, t |-> 7, poly |-> 0]}
BchShort(n) == UNION {[1 .. k -> 0 .. 3] : k \in 1 .. n}
BchSparse(n) ==
    {[k \in 1 .. n |-> IF k = i THEN a ELSE IF k = j THEN b ELSE 0] : i \in 1 .. n, j \in {2, n}, a \in 1 .. 3, b \in 0 .. 2}
BchParts(c) ==
    {<<[at |-> a, bytes |-> d]>> : a \in 0 .. 3, d \in BchShort(2)}
    \cup (IF c.t > 3 THEN {} ELSE {<<[at |-> a, bytes |-> d]>> : a \in {0, 3}, d \in BchSparse(8)})
    \cup (IF c.t > 3 THEN {} ELSE {<<[at |-> 2, bytes |-> SubSeq(d, 1, 3)], [at |-> 0, bytes |-> SubSeq(d, 4, 8)]>> : d \in BchSparse(8)})

NandLayouts ==
    {[page |-> 8, oob |-> 12, usable |-> 0, step |-> 4, str |-> 1, boot0 |-> FALSE],
     [page |-> 8, oob |-> 15, usable |-> 0, step |-> 4, str |-> 1, boot0 |-> FALSE],
     [page |-> 8, oob |-> 11, usable |-> 0, step |-> 4, str |-> 1, boot0 |-> FALSE],
     [page |-> 4, oob |-> 18, usable |-> 0, step |-> 2, str |-> 2, boot0 |-> FALSE],
     [page |-> 16, oob |-> 4, usable |-> 8, step |-> 4, str |-> 1, boot0 |-> TRUE],
     [page |-> 12, oob |-> 3, usable |-> 0, step |-> 4, str |-> 2, boot0 |-> TRUE],
     [page |-> 0, oob |-> 12, usable |-> 0, step |-> 4, str |-> 1, boot0 |-> FALSE],
     [page |-> 8, oob |-> 30, usable |-> 0, step |-> 8, str |-> 1, boot0 |-> FALSE],
     [page |-> 8, oob |-> 30, usable |-> 0, step |-> 4, str |-> 3, boot0 |-> FALSE]}
NandChoices ==
    {[page |-> y.page, oob |-> y.oob, usable |-> y.usable, step |-> y.step, str |-> y.str, boot0 |-> y.boot0,
      scramble |-> s, eb |-> 4 * y.page, offset |-> n * y.page] : y \in NandLayouts, s \in BOOLEAN, n \in {0, 2}}
NandSources ==
    {[k \in 1 .. n |-> IF (k - 1) \div 4 \in D THEN "d" ELSE "f"] : n \in {0, 3, 8, 11, 16}, D \in SUBSET (0 .. 3)}

KE == INSTANCE KcExpr WITH
        KeBools <- {"A"}, KeTris <- {"B"}, KePairs <- KcRewrites
KS == INSTANCE KcConf WITH
        KsPrograms <- KcKconfigs, KsOps <- 2, KsNumbers <- {1, 3, 5}, KsFiles <- KcIntFiles, KcoPrograms <- {KcSelects,
        KcAbove, KcBackward, KcModules, KcChoice(TRUE), KcChoice(FALSE), KcTriChoice}, KcoModes <-
        {"oldconfig", "oldaskconfig", "silent", "olddefconfig"}, KaSyms <- <<"A", "B">>, KaValues
        <- 0 .. 2, KaChanges <- 3
KD == INSTANCE KcParse WITH
        KdGraphs <- KcGraphs, KpTrees <- KcTrees
FX == INSTANCE Fexc WITH
        NameMax <- 2, WordMax <- 15, PortMax <- 3, GpioBankMax <- 2, HexEntries <- {<<"z">>,
        <<"y", "y">>}, LineMax <- 6, SectionLimit <- 2, FxTexts <- FexInputs, FxTrees <-
        FexTreeInputs, FxDram <- <<"d">>, FxMembers <- <<[name |-> <<"c", "k">>, key |-> "clock"],
        [name |-> <<"c">>, key |-> "clock"], [name |-> <<"z", "0">>, key |-> "zq"]>>, FxBuf <- 16,
        FxChunks <- {9, 60}
FEC == INSTANCE Fec WITH
        FeCodes <- FecCodes, FeIndexes <- FecVectors, FeUnroll <- 2
BCH == INSTANCE NandImage WITH
        BcByte <- 2, BcCodes <- BchCodes, BcParts <- BchParts, NiOptions <- NandChoices, NiSources
        <- NandSources, NiBadAt <- {0, 2, 9}, NiFails <- {"none", "dest"}, NiUnit <- 4,
        NiStrengths <- {1, 2}, NiSeeds <- 3

Init ==
    \/ tool = "expressions" /\ KE!KeInit /\ KS!KsOff /\ KS!KcoOff /\ KD!KdOff /\ KS!KaOff
       /\ KD!KpOff /\ FX!FxOff /\ FEC!FeOff /\ BCH!BcOff /\ BCH!NiOff
    \/ tool = "symbols" /\ KS!KsInit /\ KE!KeOff /\ KS!KcoOff /\ KD!KdOff /\ KS!KaOff
       /\ KD!KpOff /\ FX!FxOff /\ FEC!FeOff /\ BCH!BcOff /\ BCH!NiOff
    \/ tool = "conf" /\ KS!KcoInit /\ KE!KeOff /\ KS!KsOff /\ KD!KdOff /\ KS!KaOff
       /\ KD!KpOff /\ FX!FxOff /\ FEC!FeOff /\ BCH!BcOff /\ BCH!NiOff
    \/ tool = "deps" /\ KD!KdInit /\ KE!KeOff /\ KS!KsOff /\ KS!KcoOff /\ KS!KaOff
       /\ KD!KpOff /\ FX!FxOff /\ FEC!FeOff /\ BCH!BcOff /\ BCH!NiOff
    \/ tool = "autoconf" /\ KS!KaInit /\ KE!KeOff /\ KS!KsOff /\ KS!KcoOff /\ KD!KdOff
       /\ KD!KpOff /\ FX!FxOff /\ FEC!FeOff /\ BCH!BcOff /\ BCH!NiOff
    \/ tool = "parse" /\ KD!KpInit /\ KE!KeOff /\ KS!KsOff /\ KS!KcoOff /\ KD!KdOff
       /\ KS!KaOff /\ FX!FxOff /\ FEC!FeOff /\ BCH!BcOff /\ BCH!NiOff
    \/ tool = "fexc" /\ FX!FxInit /\ KE!KeOff /\ KS!KsOff /\ KS!KcoOff /\ KD!KdOff
       /\ KS!KaOff /\ KD!KpOff /\ FEC!FeOff /\ BCH!BcOff /\ BCH!NiOff
    \/ tool = "fec" /\ FEC!FeInit /\ KE!KeOff /\ KS!KsOff /\ KS!KcoOff /\ KD!KdOff
       /\ KS!KaOff /\ KD!KpOff /\ FX!FxOff /\ BCH!BcOff /\ BCH!NiOff
    \/ tool = "bch" /\ BCH!BcInit /\ KE!KeOff /\ KS!KsOff /\ KS!KcoOff /\ KD!KdOff
       /\ KS!KaOff /\ KD!KpOff /\ FX!FxOff /\ FEC!FeOff /\ BCH!NiOff
    \/ tool = "nandimage" /\ BCH!NiInit /\ KE!KeOff /\ KS!KsOff /\ KS!KcoOff /\ KD!KdOff
       /\ KS!KaOff /\ KD!KpOff /\ FX!FxOff /\ FEC!FeOff /\ BCH!BcOff

Next ==
    /\ UNCHANGED tool
    /\ \/ tool = "expressions" /\ KE!KeNext
          /\ UNCHANGED <<ksVars, koVars, kdVars, kaVars, kpVars, fxVars, fecVars, bchVars,
                          niVars>>
       \/ tool = "symbols" /\ KS!KsNext
          /\ UNCHANGED <<keVars, koVars, kdVars, kaVars, kpVars, fxVars, fecVars, bchVars,
                          niVars>>
       \/ tool = "conf" /\ KS!KcoNext
          /\ UNCHANGED <<keVars, ksVars, kdVars, kaVars, kpVars, fxVars, fecVars, bchVars,
                          niVars>>
       \/ tool = "deps" /\ KD!KdNext
          /\ UNCHANGED <<keVars, ksVars, koVars, kaVars, kpVars, fxVars, fecVars, bchVars,
                          niVars>>
       \/ tool = "autoconf" /\ KS!KaNext
          /\ UNCHANGED <<keVars, ksVars, koVars, kdVars, kpVars, fxVars, fecVars, bchVars,
                          niVars>>
       \/ tool = "parse" /\ KD!KpNext
          /\ UNCHANGED <<keVars, ksVars, koVars, kdVars, kaVars, fxVars, fecVars, bchVars,
                          niVars>>
       \/ tool = "fexc" /\ FX!FxNext
          /\ UNCHANGED <<keVars, ksVars, koVars, kdVars, kaVars, kpVars, fecVars, bchVars,
                          niVars>>
       \/ tool = "fec" /\ FEC!FeNext
          /\ UNCHANGED <<keVars, ksVars, koVars, kdVars, kaVars, kpVars, fxVars, bchVars,
                          niVars>>
       \/ tool = "bch" /\ BCH!BcNext
          /\ UNCHANGED <<keVars, ksVars, koVars, kdVars, kaVars, kpVars, fxVars, fecVars,
                          niVars>>
       \/ tool = "nandimage" /\ BCH!NiNext
          /\ UNCHANGED <<keVars, ksVars, koVars, kdVars, kaVars, kpVars, fxVars, fecVars,
                          bchVars>>

Ended ==
    \/ tool = "expressions" /\ ke_pc = "done"
    \/ tool = "symbols" /\ ks_pc = "read"
    \/ tool = "conf" /\ kco_pc \in {"done", "aborted"}
    \/ tool = "deps" /\ kd_pc = "done"
    \/ tool = "autoconf" /\ ka_pc = "built"
    \/ tool = "parse" /\ kp_pc \in {"parsed", "failed", "recursive", "no file"}
    \/ tool = "fexc" /\ FX!FxEnded
    \/ tool = "fec" /\ fe_pc \in {"null", "done"}
    \/ tool = "bch" /\ BCH!BcEnded
    \/ tool = "nandimage" /\ ni_pc = "done"

Spec == Init /\ [][Next \/ (Ended /\ UNCHANGED allVars)]_allVars

(* Simplifying a dependency keeps its value for every value of its         *)
(* symbols, and a prompt of what is no tristate its visibility, but where  *)
(* it is m and names a symbol more than once; and an entry is placed below *)
(* a symbol only if it needs it (kconfig/expr.c, menu.c).                  *)
ExprPreserved ==
    /\ KE!SimplifyPreserves /\ KE!PromptPreserved /\ KE!BelowImplies

(* A cached value is the one that would be calculated anew (but for a      *)
(* choice that can be set itself and after a number that conf_read gave up *)
(* was set again), exactly one value of a choice is chosen, selects and    *)
(* what the user set are honoured, and a saved file reads back (but after  *)
(* a rename failed) (kconfig/symbol.c, confdata.c); conf leaves nothing    *)
(* unset that is new, ends and keeps what is old (conf.c); everything is   *)
(* built with the present configuration, whatever was changed and changed  *)
(* back between builds (confdata.c).                                       *)
ConfigKept ==
    /\ KS!CacheFresh /\ KS!OneChosen /\ KS!SelectHonoured /\ KS!SetHonoured
    /\ KS!ReadsBack /\ KS!AllAsked /\ KS!WalksBounded /\ KS!KeepsOld
    /\ KS!BuiltCurrent

(* A cycle of dependencies is reported, where it does not run from a value *)
(* to its choice, and no walk leaves a mark behind (kconfig/symbol.c);     *)
(* files whose lines all end are accepted exactly if their blocks nest,    *)
(* the menu follows the text, and a file that includes itself is found     *)
(* before its third reading (zconf.y, zconf.l, menu.c).                    *)
KconfigRead ==
    /\ KD!CycleReported /\ KD!MarksCleared /\ KD!AcceptsNested
    /\ KD!TreeFollowsText /\ KD!InclusionBounded

(* What fexc wrote it reads as the same tree, as text if the tree can be   *)
(* put into lines, and refuses only for the values listed with FxReadable; *)
(* sizes are exact, all of a pipe is read, an input that is refused leaves *)
(* the output as it was, exit 0 with a binary output means written, and    *)
(* the header for U-Boot has the first values (fexc.c, script.c,           *)
(* script_bin.c, script_fex.c, script_uboot.c).                            *)
FexcExact ==
    /\ FX!FxSameTree /\ FX!FxReadable /\ FX!FxSizeExact /\ FX!FxOutputKept
    /\ FX!FxExitZero /\ FX!FxReadWhole /\ FX!FxMembersFirst

(* Any packets that suffice decode, and others are refused (libfec.c); the *)
(* BCH code has its distance and parity (nand-image-builder.c); an image   *)
(* of NAND pages is whole, scrambled, readable and not marked bad, and an  *)
(* error of reading is seen (nand-image-builder.c).                        *)
CodesRight ==
    /\ FEC!FecField /\ FEC!FecPairs /\ FEC!FecDecodes /\ FEC!FecRefuses
    /\ BCH!BchMade /\ BCH!BchBase /\ BCH!BchParity /\ BCH!BchDistance
    /\ BCH!NiErrorSeen /\ BCH!NiWholePages /\ BCH!NiNotBad
    /\ BCH!NiAllScrambled /\ BCH!NiReadable
=============================================================================
