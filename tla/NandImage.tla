----------------------------- MODULE NandImage ------------------------------
(***************************************************************************)
(* The BCH encoder of sunxi-tools/nand-image-builder.c, which makes the    *)
(* redundancy that the NAND controller of the board checks.  init_bch      *)
(* makes the field, the generator polynomial, the tables of remainders and *)
(* the base for quadratic equations; encode_bch is then called for the     *)
(* parts of some data.  A byte has BcByte bits here and a word four bytes; *)
(* arrays begin at 0 as in the code.                                       *)
(***************************************************************************)
EXTENDS Integers, Sequences, FiniteSets, FiniteSetsExt, SequencesExt, Bitwise, TLC

CONSTANTS BcByte,       \* bits of a byte
          BcCodes,      \* [m, t, poly]
          BcParts(_)    \* for a code: the calls tried, sequences of [at, bytes]

VARIABLES bc_pc, bc_c, bc_pow, bc_log, bc_x, bc_g, bc_tab, bc_xi, bc_parts, bc_rest, bc_ecc, bc_r

bcVars == <<bc_pc, bc_c, bc_pow, bc_log, bc_x, bc_g, bc_tab, bc_xi, bc_parts, bc_rest, bc_ecc, bc_r>>
bcField == <<bc_c, bc_pow, bc_log>>
bcCalls == <<bc_parts, bc_rest, bc_ecc, bc_r>>

BcBlank ==
    /\ bc_pow = <<>> /\ bc_log = <<>> /\ bc_x = 1 /\ bc_g = <<>> /\ bc_tab = <<>> /\ bc_xi = <<>>
    /\ bc_parts = <<>> /\ bc_rest = <<>> /\ bc_ecc = <<>> /\ bc_r = <<>>
BcOff == bc_pc = "off" /\ bc_c = [m |-> 0, t |-> 0, poly |-> 0] /\ BcBlank
BcInit == bc_pc = "init" /\ bc_c \in BcCodes /\ BcBlank
BcEnded == bc_pc \in {"null", "done"}

W == 4 * BcByte
DivRoundUp(n, d) == (n + d - 1) \div d
N == 2 ^ bc_c.m - 1
EccWords == DivRoundUp(bc_c.m * bc_c.t, W)
BchBytes == DivRoundUp(bc_c.m * bc_c.t, BcByte)
Fls(x) == Cardinality({i \in 0 .. 16 : 2 ^ i <= x})
Deg(poly) == Fls(poly) - 1
Assign(f, i, v) == [j \in DOMAIN f \cup {i} |-> IF j = i THEN v ELSE f[j]]

RECURSIVE Modulo(_)
Modulo(v) == IF v < N THEN v ELSE Modulo(((v - N) % (N + 1)) + ((v - N) \div (N + 1)))
ModS(v) == IF v < N THEN v ELSE v - N
GfMul(a, b) == IF a = 0 \/ b = 0 THEN 0 ELSE bc_pow[ModS(bc_log[a] + bc_log[b])]
GfSqr(a) == IF a = 0 THEN 0 ELSE bc_pow[ModS(2 * bc_log[a])]

PrimPolyTab == <<37, 67, 131, 285, 529, 1033, 2053, 4179, 8219, 16427, 32771>>

Null == bc_pc' = "null"

(* init_bch: the parameters, and build_gf_tables' test of the degree. *)
InitBch ==
    /\ bc_pc = "init"
    /\ \/ /\ bc_c.m \notin 5 .. 15 \/ bc_c.t < 1 \/ bc_c.m * bc_c.t >= N
          /\ Null /\ UNCHANGED bc_c
       \/ /\ bc_c.m \in 5 .. 15 /\ bc_c.t >= 1 /\ bc_c.m * bc_c.t < N
          /\ bc_c' = [bc_c EXCEPT !.poly = IF @ = 0 THEN PrimPolyTab[bc_c.m - 4] ELSE @]
          /\ bc_pc' = IF Deg(bc_c'.poly) = bc_c.m THEN "powers" ELSE "null"
    /\ UNCHANGED <<bc_pow, bc_log, bc_x, bc_g, bc_tab, bc_xi, bcCalls>>

(* build_gf_tables, one power at a time. *)
Powers ==
    /\ bc_pc = "powers"
    /\ LET i == Cardinality(DOMAIN bc_pow)
       IN  IF i = N
           THEN /\ bc_pow' = Assign(bc_pow, N, 1) /\ bc_log' = Assign(bc_log, 0, 0)
                /\ bc_pc' = "roots" /\ bc_g' = (0 :> 1) /\ bc_x' = 0
           ELSE /\ bc_pow' = Assign(bc_pow, i, bc_x) /\ bc_log' = Assign(bc_log, bc_x, i) /\ UNCHANGED bc_g
                /\ IF i > 0 /\ bc_x = 1 THEN Null /\ UNCHANGED bc_x
                   ELSE /\ bc_x' = IF 2 * bc_x >= 2 ^ bc_c.m THEN (2 * bc_x) ^^ bc_c.poly ELSE 2 * bc_x
                        /\ UNCHANGED bc_pc
    /\ UNCHANGED <<bc_c, bc_tab, bc_xi, bcCalls>>

(* compute_generator_polynomial: the roots, then one factor after another. *)
Conjugates(i) ==
    LET r[j \in 0 .. bc_c.m - 1] == IF j = 0 THEN 2 * i + 1 ELSE ModS(2 * r[j - 1]) IN {r[j] : j \in 0 .. bc_c.m - 1}
Roots == UNION {Conjugates(i) : i \in 0 .. bc_c.t - 1}
GDeg == Cardinality(DOMAIN bc_g) - 1
Factor ==
    /\ bc_pc = "roots" /\ bc_x < N
    /\ bc_g' = IF bc_x \notin Roots THEN bc_g
               ELSE [j \in 0 .. GDeg + 1 |->
                        IF j = GDeg + 1 THEN 1
                        ELSE GfMul(bc_g[j], bc_pow[bc_x]) ^^ (IF j = 0 THEN 0 ELSE bc_g[j - 1])]
    /\ bc_x' = bc_x + 1
    /\ UNCHANGED <<bc_pc, bcField, bc_tab, bc_xi, bcCalls>>
PLen == DivRoundUp(GDeg + 1, W)
GenPoly ==
    [i \in 0 .. PLen - 1 |->
        MapThenSumSet(LAMBDA j : 2 ^ (W - 1 - j),
                      {j \in 0 .. W - 1 : GDeg >= i * W + j /\ bc_g[GDeg - i * W - j] # 0})]

(* build_mod8_tables: the remainder of a byte's polynomial in each of the  *)
(* four positions of a word.                                               *)
Shl(x, n) == (x * 2 ^ n) % 2 ^ W
Shr(x, n) == x \div 2 ^ n
RECURSIVE Remainder(_, _, _)
Remainder(g, data, tab) ==
    IF data = 0 THEN tab
    ELSE LET d == Deg(data)
             Hi(j) == IF d < W - 1 THEN Shl(g[j], d + 1) ELSE 0
             Lo(j) == IF j + 1 < PLen THEN Shr(g[j + 1], W - 1 - d) ELSE 0
         IN  Remainder(g, data ^^ Shr(g[0], W - 1 - d),
                       [j \in DOMAIN tab |-> IF j < DivRoundUp(GDeg, W) THEN tab[j] ^^ (Hi(j) | Lo(j)) ELSE tab[j]])
Mod8Tables ==
    /\ bc_pc = "roots" /\ bc_x = N
    /\ LET g == GenPoly
       IN  bc_tab' = [b \in 0 .. 3 |-> [i \in 0 .. 2 ^ BcByte - 1 |->
                         Remainder(g, i * 2 ^ (BcByte * b), [j \in 0 .. EccWords - 1 |-> 0])]]
    /\ bc_pc' = "base" /\ bc_x' = 0
    /\ UNCHANGED <<bcField, bc_g, bc_xi, bcCalls>>

(* build_deg2_base: an element of trace 1, then the search. *)
Tr(i) == FoldSet(LAMBDA j, y : bc_pow[Modulo(i * 2 ^ j)] ^^ y, 0, 0 .. bc_c.m - 1)
SmallTrace == {i \in 0 .. bc_c.m - 1 : Tr(i) # 0}
Ak == IF SmallTrace = {} THEN 0 ELSE bc_pow[Min(SmallTrace)]
Tries(y) == <<y, y ^^ Ak>>
BchWanted(y) == y # 0 /\ bc_log[y] < bc_c.m /\ bc_log[y] \notin DOMAIN bc_xi
Quadratic(x) == GfSqr(x) ^^ x
Deg2Base ==
    /\ bc_pc = "base"
    /\ IF bc_x <= N /\ Cardinality(DOMAIN bc_xi) < bc_c.m
       THEN /\ LET y == Tries(Quadratic(bc_x))
               IN  bc_xi' = IF BchWanted(y[1]) THEN Assign(bc_xi, bc_log[y[1]], bc_x)
                            ELSE IF BchWanted(y[2]) THEN Assign(bc_xi, bc_log[y[2]], bc_x) ELSE bc_xi
            /\ bc_x' = bc_x + 1 /\ UNCHANGED bc_pc
       ELSE bc_pc' = (IF Cardinality(DOMAIN bc_xi) < bc_c.m THEN "null" ELSE "ready") /\ UNCHANGED <<bc_xi, bc_x>>
    /\ UNCHANGED <<bcField, bc_g, bc_tab, bcCalls>>

(* The calls, with ecc zeroed before the first. *)
Call ==
    /\ bc_pc = "ready" /\ bc_pc' = "load"
    /\ bc_parts' \in BcParts(bc_c) /\ bc_rest' = bc_parts'
    /\ bc_ecc' = [k \in 0 .. BchBytes - 1 |-> 0]
    /\ UNCHANGED <<bcField, bc_x, bc_g, bc_tab, bc_xi, bc_r>>

(* load_ecc8, store_ecc8. *)
LoadEcc8(ecc) ==
    [i \in 0 .. EccWords - 1 |->
        MapThenSumSet(LAMBDA k : ecc[4 * i + k] * 2 ^ (W - (k + 1) * BcByte), {k \in 0 .. 3 : 4 * i + k < BchBytes})]
StoreEcc8(r) == [k \in 0 .. BchBytes - 1 |-> Shr(r[k \div 4], W - ((k % 4) + 1) * BcByte) % 2 ^ BcByte]
Load ==
    /\ bc_pc = "load" /\ bc_pc' = "run" /\ bc_r' = LoadEcc8(bc_ecc)
    /\ UNCHANGED <<bcField, bc_x, bc_g, bc_tab, bc_xi, bc_parts, bc_rest, bc_ecc>>

L == EccWords - 1
Bytes == bc_rest[1].bytes
Taken(n) == [bc_rest EXCEPT ![1] = [at |-> (@.at + n) % 4, bytes |-> SubSeq(@.bytes, n + 1, Len(@.bytes))]]
(* encode_bch_unaligned, before the first and behind the last whole word. *)
ByteStep ==
    /\ bc_pc = "run" /\ Bytes # <<>> /\ (bc_rest[1].at # 0 \/ Len(Bytes) < 4)
    /\ LET p == bc_tab[0][Shr(bc_r[0], W - BcByte) ^^ Bytes[1]]
       IN  bc_r' = [i \in 0 .. L |-> (Shl(bc_r[i], BcByte) | (IF i < L THEN Shr(bc_r[i + 1], W - BcByte) ELSE 0)) ^^ p[i]]
    /\ bc_rest' = Taken(1)
    /\ UNCHANGED <<bc_pc, bcField, bc_x, bc_g, bc_tab, bc_xi, bc_parts, bc_ecc>>
(* The loop over aligned words. *)
Carry(i) == IF i < L THEN bc_r[i + 1] ELSE 0
WordStep ==
    /\ bc_pc = "run" /\ bc_rest[1].at = 0 /\ Len(Bytes) >= 4
    /\ LET w == bc_r[0] ^^ MapThenSumSet(LAMBDA k : Bytes[k] * 2 ^ (W - k * BcByte), 1 .. 4)
           P(b) == bc_tab[b][Shr(w, b * BcByte) % 2 ^ BcByte]
       IN  bc_r' = [i \in 0 .. L |-> Carry(i) ^^ (P(0)[i] ^^ (P(1)[i] ^^ (P(2)[i] ^^ P(3)[i])))]
    /\ bc_rest' = Taken(4)
    /\ UNCHANGED <<bc_pc, bcField, bc_x, bc_g, bc_tab, bc_xi, bc_parts, bc_ecc>>
Store ==
    /\ bc_pc = "run" /\ Bytes = <<>>
    /\ bc_ecc' = StoreEcc8(bc_r) /\ bc_rest' = Tail(bc_rest)
    /\ bc_pc' = IF bc_rest' = <<>> THEN "done" ELSE "load"
    /\ UNCHANGED <<bcField, bc_x, bc_g, bc_tab, bc_xi, bc_parts, bc_r>>

BcNext ==
    \/ InitBch \/ Powers \/ Factor \/ Mod8Tables \/ Deg2Base \/ Call \/ Load \/ ByteStep \/ WordStep \/ Store

(* Polynomials over GF(2) as sets of exponents: the reference. *)
Sum2(S, T) == (S \cup T) \ (S \cap T)
G == {j \in DOMAIN bc_g : bc_g[j] = 1}
RECURSIVE ModG(_)
ModG(S) == IF S = {} \/ Max(S \cup {0}) < Max(G) THEN S ELSE ModG(Sum2(S, {e + Max(S) - Max(G) : e \in G}))
BchStream(bytes, top) ==
    {top - k : k \in {k \in 0 .. Len(bytes) * BcByte - 1 :
        Shr(bytes[(k \div BcByte) + 1], BcByte - 1 - (k % BcByte)) % 2 = 1}}
All == FlattenSeq([i \in DOMAIN bc_parts |-> bc_parts[i].bytes])
EccSeq == [k \in 1 .. BchBytes |-> bc_ecc[k - 1]]
Parity == BchStream(EccSeq, GDeg - 1)
Data == BchStream(All, Len(All) * BcByte - 1 + GDeg)

(* However data is aligned and divided among calls, the redundancy is the  *)
(* remainder of the data's polynomial by the generator, left-justified     *)
(* (encode_bch: "in order to allow incremental computations").             *)
BchParity == bc_pc = "done" => Parity = ModG(Data)

(* Every word of the code but 0 has at least 2t+1 ones, so t errors can be *)
(* corrected (compute_generator_polynomial); its coefficients are bits.    *)
BchDistance ==
    /\ bc_pc = "ready" => \A j \in DOMAIN bc_g : bc_g[j] \in {0, 1}
    /\ bc_pc = "done" /\ Data # {} => Cardinality(Data) + Cardinality(ModG(Data)) > 2 * bc_c.t

(* init_bch only fails for parameters it excludes and for polynomials that *)
(* are not primitive.                                                      *)
BchMade ==
    bc_pc = "null" => \/ bc_c.m < 5 \/ bc_c.t < 1 \/ bc_c.m * bc_c.t >= N
                      \/ Deg(bc_c.poly) # bc_c.m
                      \/ \E i \in DOMAIN bc_pow : i > 0 /\ i < N /\ bc_pow[i] = 1

(* xi_tab solves x^2 + x = a^i, displaced by one element of trace 1 where  *)
(* there is no solution (build_deg2_base).                                 *)
BchBase ==
    bc_pc = "ready" =>
        \E k \in 0 .. bc_c.m - 1 : \A i \in 0 .. bc_c.m - 1 :
            GfMul(bc_xi[i], bc_xi[i]) ^^ bc_xi[i] = bc_pow[i] ^^ (IF Tr(i) = 1 THEN bc_pow[k] ELSE 0)

-----------------------------------------------------------------------------
(***************************************************************************)
(* sunxi-nand-image-builder (sunxi-tools/nand-image-builder.c): a raw NAND *)
(* image, page by page, in the layout of the NAND controller or, for       *)
(* boot0, of the boot ROM.  A cell of the image holds a value and the      *)
(* place of the scrambler's stream it is combined with; a byte of          *)
(* redundancy holds what it was computed over (see above).  Sizes are      *)
(* scaled: NiUnit stands for 1024 bytes.                                   *)
(***************************************************************************)

CONSTANTS NiOptions,    \* [page, oob, usable, eb, step, str, boot0, scramble, offset]
          NiSources,    \* the source files: sequences of "f" (0xff) and "d" (anything else)
          NiBadAt,      \* where reading fails, 0: nowhere
          NiFails,      \* "none" or what create_image fails to get
          NiUnit,       \* 1024
          NiStrengths,  \* valid_ecc_strengths
          NiSeeds       \* number of default_scrambler_seeds

VARIABLES ni_pc, ni_o, ni_src, ni_bad, ni_fail, ni_pos, ni_eof, ni_base, ni_out, ni_page, ni_i, ni_ret

niVars == <<ni_pc, ni_o, ni_src, ni_bad, ni_fail, ni_pos, ni_eof, ni_base, ni_out, ni_page, ni_i, ni_ret>>
niInput == <<ni_o, ni_src, ni_bad, ni_fail>>

NiBlank == ni_pos = 0 /\ ni_eof = FALSE /\ ni_base = 0 /\ ni_out = <<>> /\ ni_page = 0 /\ ni_i = 0 /\ ni_ret = 0
NiOff == ni_pc = "off" /\ ni_o = <<>> /\ ni_src = <<>> /\ ni_bad = 0 /\ ni_fail = "none" /\ NiBlank
NiInit ==
    /\ ni_pc = "check" /\ ni_o \in NiOptions /\ ni_src \in NiSources /\ ni_bad \in NiBadAt /\ ni_bad <= Len(ni_src)
    /\ ni_fail \in NiFails /\ NiBlank

(* eccbytes, for a field of 14 bits and kept even. *)
EccBytes ==
    LET n == (ni_o.str * 14 + 7) \div 8 IN n + (n % 2)
Steps == ni_o.usable \div ni_o.step
Whole == ni_o.page + ni_o.oob
Stream == ni_o.step + 4 + EccBytes

(* main and check_image_info.  --oob is not looked at. *)
Usable(o) ==
    IF ~o.boot0 THEN o.page
    ELSE IF o.usable # 0 THEN o.usable
    ELSE IF o.page > 8 * NiUnit THEN 8 * NiUnit ELSE IF o.page > 4 * NiUnit THEN 4 * NiUnit ELSE NiUnit
SpareBytes == EccBytes + 4
Good ==
    /\ ni_o.page # 0 /\ ni_o.eb # 0
    /\ ni_o.step \in {NiUnit \div 2, NiUnit} /\ ni_o.str \in NiStrengths
    /\ Whole >= ni_o.usable + Steps * SpareBytes
Exit(ret) == ni_pc' = "done" /\ ni_ret' = ret
Main ==
    /\ ni_pc = "check" /\ ni_o' = [ni_o EXCEPT !.usable = Usable(ni_o)] /\ ni_pc' = "check_info"
    /\ UNCHANGED <<ni_src, ni_bad, ni_fail, ni_pos, ni_eof, ni_base, ni_out, ni_page, ni_i, ni_ret>>
(* create_image: the encoder, the buffer and the files. *)
CreateImage ==
    /\ ni_pc = "check_info"
    /\ \/ (~Good \/ ni_fail # "none") /\ Exit(-1) /\ UNCHANGED ni_page
       \/ Good /\ ni_fail = "none" /\ ni_pc' = "page" /\ ni_page' = ni_o.offset \div ni_o.page /\ UNCHANGED ni_ret
    /\ UNCHANGED <<niInput, ni_pos, ni_eof, ni_base, ni_out, ni_i>>

(* The C library: what fread returns, and whether feof holds then. *)
Readable == IF ni_bad = 0 THEN Len(ni_src) ELSE ni_bad - 1
Fread(n) == Min({n, Readable - ni_pos})
Feof(n) == ni_eof \/ (Fread(n) < n /\ ni_bad = 0)
Cell(v) == [v |-> v, key |-> <<>>]
FF == <<"ff">>
Byte(j) == IF j > Len(ni_src) \/ ni_src[j] = "f" THEN FF ELSE <<"src", j>>
Put(out, at, cells) ==
    IF cells = <<>> THEN out
    ELSE [k \in 1 .. Max({Len(out), at + Len(cells)}) |->
            IF k > at /\ k <= at + Len(cells) THEN cells[k - at] ELSE IF k <= Len(out) THEN out[k] ELSE Cell(<<"hole">>)]

(* write_page begins: a page of data as it is, which is all for one that   *)
(* is empty; otherwise the source is read again.  The page number and the  *)
(* place in the output go on after every page.                             *)
NextPage == ni_base' = ni_base + Whole /\ ni_page' = ni_page + 1 /\ ni_pc' = IF ni_eof' THEN "end" ELSE "page"
ReadPage ==
    /\ ni_pc = "page" /\ ni_i' = 0
    /\ LET cnt == Fread(ni_o.usable)
           page == [k \in 1 .. Whole |-> Cell(IF k <= cnt THEN Byte(ni_pos + k) ELSE FF)]
       IN  \/ /\ cnt = 0 /\ ni_eof' = Feof(ni_o.usable)
              /\ IF ni_eof' THEN ni_pc' = "end" /\ UNCHANGED ni_ret ELSE Exit(-1)
              /\ UNCHANGED <<ni_pos, ni_base, ni_out, ni_page>>
           \/ /\ cnt # 0 /\ ni_out' = Put(ni_out, ni_base, page) /\ UNCHANGED ni_ret
              /\ IF \A k \in 1 .. ni_o.usable : page[k].v = FF
                 THEN ni_eof' = Feof(ni_o.usable) /\ ni_pos' = ni_pos + cnt /\ NextPage
                 ELSE ni_eof' = FALSE /\ ni_pc' = "unused" /\ UNCHANGED <<ni_pos, ni_base, ni_page>>
    /\ UNCHANGED niInput

(* scramble: which stream. *)
SeedOf == ni_page % Min({ni_o.eb \div ni_o.page, NiSeeds})
Scramble(cells) ==
    IF ni_o.boot0 \/ ni_o.scramble
    THEN [k \in DOMAIN cells |-> [cells[k] EXCEPT !.key = <<IF ni_o.boot0 THEN -1 ELSE SeedOf, k>>]]
    ELSE cells

(* The space behind the steps. *)
SpareEnd == ni_o.page + Steps * (EccBytes + 4)
UnusedAt == IF ni_o.boot0 THEN Steps * Stream ELSE SpareEnd
Unused ==
    /\ ni_pc = "unused" /\ ni_pc' = "step"
    /\ LET n == 1 .. Whole - UnusedAt
       IN  ni_out' = IF ~ni_o.scramble THEN ni_out
                     ELSE Put(ni_out, ni_base + UnusedAt,
                              IF ni_o.boot0 THEN [k \in n |-> Cell(<<"rnd", k>>)] ELSE Scramble([k \in n |-> Cell(FF)]))
    /\ UNCHANGED <<niInput, ni_pos, ni_eof, ni_base, ni_page, ni_i, ni_ret>>

(* One step: data, four bytes, and the redundancy over both. *)
DataAt(i) == IF ni_o.boot0 THEN i * Stream ELSE i * ni_o.step
EccAt(i) == IF ni_o.boot0 THEN DataAt(i) + ni_o.step + 4 ELSE ni_o.page + 4 + i * (EccBytes + 4)
Protected(pos, cnt) ==
    [k \in 1 .. ni_o.step + 4 |-> IF k <= cnt THEN Byte(pos + k)
                                  ELSE IF k <= ni_o.step /\ ni_o.scramble /\ ni_o.boot0 THEN <<"rnd", k>> ELSE FF]
Coded(prot) == [k \in 1 .. Stream |-> Cell(IF k <= Len(prot) THEN prot[k] ELSE <<"ecc", k, prot>>)]
Step ==
    /\ ni_pc = "step" /\ ni_i < Steps
    /\ LET cnt == Fread(ni_o.step)
           cells == Scramble(Coded(Protected(ni_pos, cnt)))
       IN  /\ ni_eof' = Feof(ni_o.step) /\ ni_pos' = ni_pos + cnt
           /\ IF cnt = 0 /\ ~ni_eof' THEN Exit(-1) /\ UNCHANGED <<ni_out, ni_i>>
              ELSE /\ ni_out' = Put(Put(ni_out, ni_base + DataAt(ni_i), SubSeq(cells, 1, ni_o.step)),
                                    ni_base + EccAt(ni_i) - 4, SubSeq(cells, ni_o.step + 1, Stream))
                   /\ ni_i' = ni_i + 1 /\ UNCHANGED <<ni_pc, ni_ret>>
    /\ UNCHANGED <<niInput, ni_base, ni_page>>

(* The bad block mark, and the next page. *)
FixBbm == Put(ni_out, ni_base + ni_o.page, <<Cell(FF), Cell(FF)>>)
FinishPage ==
    /\ ni_pc = "step" /\ ni_i = Steps
    /\ ni_out' = FixBbm /\ ni_eof' = ni_eof /\ NextPage
    /\ UNCHANGED <<niInput, ni_pos, ni_i, ni_ret>>
End ==
    /\ ni_pc = "end" /\ Exit(0)
    /\ UNCHANGED <<niInput, ni_pos, ni_eof, ni_base, ni_out, ni_page, ni_i>>

NiNext == Main \/ CreateImage \/ ReadPage \/ Unused \/ Step \/ FinishPage \/ End

(* Where the reader looks: the pages of the image, the source bytes of a   *)
(* step, and the cells of the step in the order of its stream.             *)
PerPage == ni_o.page + ni_o.oob
Ecc == ni_o.str * 2 - 2 * (ni_o.str \div 8)
Made == ni_pc = "done" /\ ni_ret = 0
Pages == (Len(ni_src) + ni_o.usable - 1) \div ni_o.usable
SourceOf(p, i) == p * ni_o.usable + i * ni_o.step
RawAt(p, i, k) ==
    IF ni_o.boot0 THEN p * PerPage + i * (ni_o.step + 4 + Ecc) + k
    ELSE IF k <= ni_o.step THEN p * PerPage + i * ni_o.step + k
    ELSE p * PerPage + ni_o.page + i * (4 + Ecc) + k - ni_o.step
Mark(p) == {p * PerPage + ni_o.page + 1, p * PerPage + ni_o.page + 2}
Blank(p) == \A k \in 1 .. ni_o.usable : Byte(p * ni_o.usable + k) = FF
KeyOf(p, k) ==
    IF ni_o.boot0 THEN <<-1, k>>
    ELSE IF ni_o.scramble THEN <<((ni_o.offset \div ni_o.page) + p) % Min({ni_o.eb \div ni_o.page, NiSeeds}), k>> ELSE <<>>
Wanted(p, i) ==
    [k \in 1 .. ni_o.step + 4 |->
        IF k <= ni_o.step /\ SourceOf(p, i) + k <= Len(ni_src) THEN Byte(SourceOf(p, i) + k)
        ELSE IF k <= ni_o.step /\ ni_o.boot0 /\ ni_o.scramble THEN <<"rnd", k>> ELSE FF]

(* The controller, or the boot ROM, that reads page p of the chip with     *)
(* this layout and the stream of that page finds the source and redundancy *)
(* over it, but for the two bytes of the bad block mark, which it can      *)
(* correct; a page without data reads as an erased one (write_page).       *)
NiReadable ==
    Made => \A p \in 0 .. Pages - 1 :
        IF Blank(p) THEN \A k \in 1 .. PerPage : ni_out[p * PerPage + k] = Cell(FF)
        ELSE \A i \in 0 .. (ni_o.usable \div ni_o.step) - 1, k \in 1 .. ni_o.step + 4 + Ecc :
                RawAt(p, i, k) \in Mark(p)
                \/ ni_out[RawAt(p, i, k)] = [v |-> IF k <= ni_o.step + 4 THEN Wanted(p, i)[k] ELSE <<"ecc", k, Wanted(p, i)>>,
                                             key |-> KeyOf(p, k)]

(* An image is a whole number of pages, as many as the source needs: what  *)
(* check_image_info lets through never reaches into the next page.         *)
NiWholePages == Made => Len(ni_out) = Pages * PerPage

(* No page looks like one of a bad block: the mark is erased whatever the  *)
(* layout puts there ("Fix BBM").                                          *)
NiNotBad == Made => \A p \in 0 .. Pages - 1 : \A k \in Mark(p) : ni_out[k] = Cell(FF)

(* With scrambling nothing of a page with data but that mark is left       *)
(* unscrambled ("Randomize unused space if scrambling is required").       *)
NiAllScrambled ==
    Made /\ ni_o.scramble =>
        \A p \in 0 .. Pages - 1 : Blank(p) \/ \A k \in 1 .. PerPage :
            p * PerPage + k \in Mark(p) \/ ni_out[p * PerPage + k].key # <<>> \/ ni_out[p * PerPage + k].v[1] = "rnd"

(* A source that cannot be read to its end never gives status 0, wherever  *)
(* the error is met (the two tests of feof in write_page).                 *)
NiErrorSeen == ni_pc = "done" /\ ni_bad # 0 => ni_ret # 0
=============================================================================
